---- MODULE Spec2Model ----
(***************************************************************************)
(* State-machine model of the e-commerce customer support chatbot:         *)
(*   - LRUCache (chatbot/performance_tuning.py), called sequentially       *)
(*     (Spec), from several threads (SpecConc) and through the             *)
(*     cache_result decorator (SpecCached);                                *)
(*   - OrderTracker and DialogueSystem (chatbot/order_tracker.py,          *)
(*     chatbot/dialogue_system.py) with the classifier, the response       *)
(*     generator and the retriever they call, used by one caller          *)
(*     (SpecDialogue, SpecTurns) and by several threads (SpecDialogueConc);*)
(*   - IntentClassifier.classify on its own (SpecClassify);                *)
(*   - ChatbotAPIWrapper (chatbot/api_wrapper.py) with callers of several  *)
(*     sessions (SpecAPI).                                                 *)
(***************************************************************************)
EXTENDS Integers, Sequences, FiniteSets, TLC

(***************************************************************************)
(* Bounds of the model.                                                    *)
(***************************************************************************)
MaxCap == 2       \* largest max_size a cache is built with
MaxTTL == 1       \* largest ttl_seconds a cache is built with
MaxSteps == 5     \* calls and clock ticks in one run of the sequential cache
NumThreads == 2   \* threads sharing one cache
MaxTurns == 2     \* process_input calls between two clear_history calls
MaxConcCalls == 3 \* calls started, over all threads, in one concurrent run
MaxDialogueCalls == 2 \* process_input calls started, over all threads, in one concurrent run
MaxTextLen == 3   \* longest text given to classify on its own

\* One key more than the largest capacity, so that a full cache can be overfilled.
Keys == 1..(MaxCap + 1)
\* Two distinguishable values to store.
Vals == {1, 2}

\* Python's None as a returned value.
None == 0
\* Marks "no put recorded" in the bookkeeping of put times.
NoTime == 0 - 1

VARIABLES
    \* LRUCache fields
    max_size,        \* self.max_size
    ttl_seconds,     \* self.ttl_seconds
    cache,           \* self.cache: OrderedDict, oldest entry first
    timestamps,      \* self.timestamps: key -> time of insertion
    cache_hits,      \* self.metrics.cache_hits
    cache_misses,    \* self.metrics.cache_misses
    now,             \* the clock read by datetime.now()
    cacheCall,       \* the last LRUCache call made and how it ended
    steps,           \* calls and ticks made so far
    \* history of the calls made, kept to state the claims
    putTime,         \* key -> time of the last put that stored it, while stored
    fill,            \* the run of puts of distinct keys since the cache was empty
    hit,             \* the last get that hit, and the new keys put since
    computed,        \* the results a cache_result wrapper computed and stored, in order
    getCalls,        \* the get calls made on the cache since construction
    \* threads calling into one LRUCache
    pc,              \* thread -> the statement it is about to execute
    local,           \* thread -> its call's arguments, locals and result
    counted,         \* executions of a hit/miss counter increment so far
    \* OrderTracker, IRBasedQA and DialogueSystem fields
    orders,                 \* OrderTracker.orders['orders']
    similarities,           \* query text -> cosine similarity to each FAQ question, in hundredths
    conversation_history,   \* DialogueSystem.conversation_history
    user_context,           \* DialogueSystem.user_context
    dlgCall,                \* the last OrderTracker / IRBasedQA / DialogueSystem call and its result
    turns,                  \* process_input calls made since the history was last empty
    \* IntentClassifier
    classifier,             \* which definitions self.intents holds, the last classify call and its result
    \* ChatbotAPIWrapper
    sessions,               \* self.sessions
    apiCall,                \* the last ChatbotAPIWrapper call and what it returned
    historyOwners,          \* the session ids whose messages have entries in the history
    \* ConnectionPool
    pool,                   \* pool_size, available_connections, active_connections, max_connections
    poolCall                \* the last ConnectionPool call and what it returned

cacheVars == <<max_size, ttl_seconds, cache, timestamps, cache_hits,
               cache_misses, now, cacheCall, steps>>
historyVars == <<putTime, fill, hit, computed, getCalls>>
threadVars == <<pc, local, counted>>
dialogueVars == <<orders, similarities, conversation_history, user_context,
                  dlgCall, turns, classifier>>
apiVars == <<sessions, apiCall, historyOwners>>
poolVars == <<pool, poolCall>>
vars == <<cacheVars, historyVars, threadVars, dialogueVars, apiVars, poolVars>>

\* What a sequential LRUCache call leaves alone.
outsideCache == <<threadVars, dialogueVars, apiVars, poolVars>>

(***************************************************************************)
(* Text: a string is a sequence of one-character strings.                  *)
(***************************************************************************)
UpperLetters == <<"A", "B", "C", "D", "E", "F", "G", "H", "I", "J", "K", "L", "M", "N", "O", "P", "Q", "R", "S", "T", "U", "V", "W", "X", "Y", "Z">>
LowerLetters == <<"a", "b", "c", "d", "e", "f", "g", "h", "i", "j", "k", "l", "m", "n", "o", "p", "q", "r", "s", "t", "u", "v", "w", "x", "y", "z">>
Digits == {"0", "1", "2", "3", "4", "5", "6", "7", "8", "9"}

IsUpper(c) == \E i \in DOMAIN UpperLetters : UpperLetters[i] = c
IsLower(c) == \E i \in DOMAIN LowerLetters : LowerLetters[i] = c

\* str.lower and str.upper, character by character
LowerChar(c) ==
    IF IsUpper(c) THEN LowerLetters[CHOOSE i \in DOMAIN UpperLetters : UpperLetters[i] = c] ELSE c
UpperChar(c) ==
    IF IsLower(c) THEN UpperLetters[CHOOSE i \in DOMAIN LowerLetters : LowerLetters[i] = c] ELSE c
Lower(s) == [i \in DOMAIN s |-> LowerChar(s[i])]
Upper(s) == [i \in DOMAIN s |-> UpperChar(s[i])]

\* \s and, under re.IGNORECASE, [A-Z0-9]
IsSpace(c) == c \in {" ", "\t", "\n"}
IsAlnum(c) == IsUpper(c) \/ IsLower(c) \/ c \in Digits

\* p in s (substring test)
Contains(s, p) == \E i \in 0..(Len(s) - Len(p)) : SubSeq(s, i + 1, i + Len(p)) = p

\* str.split(): the maximal runs of non-space characters
RECURSIVE Split(_)
Split(s) ==
    IF s = <<>> THEN <<>>
    ELSE IF IsSpace(Head(s)) THEN Split(Tail(s))
    ELSE LET ends == {j \in 1..Len(s) : j = Len(s) \/ IsSpace(s[j + 1])}
             e == CHOOSE j \in ends : \A k \in ends : j <= k
         IN  <<SubSeq(s, 1, e)>> \o Split(SubSeq(s, e + 1, Len(s)))


(***************************************************************************)
(* The data the components load at construction: the intent definitions    *)
(* (data/intents.json), the seeded order ids (data/sample_orders.json) and *)
(* the texts users send.                                                   *)
(***************************************************************************)
intents == <<
    [tag |-> "greeting",
     patterns |-> <<<<"h", "i">>,
                    <<"h", "e", "l", "l", "o">>>>,
     responses |-> <<"greeting_reply_1", "greeting_reply_2">>],
    [tag |-> "track_order",
     patterns |-> <<<<"t", "r", "a", "c", "k", " ", "m", "y", " ", "o", "r", "d", "e", "r">>,
                    <<"w", "h", "e", "r", "e", " ", "i", "s", " ", "m", "y", " ", "o", "r", "d", "e", "r">>>>,
     responses |-> <<"track_order_reply_1", "track_order_reply_2">>],
    [tag |-> "cancel_item",
     patterns |-> <<<<"c", "a", "n", "c", "e", "l", " ", "o", "r", "d", "e", "r">>,
                    <<"c", "a", "n", "c", "e", "l", " ", "i", "t", "e", "m">>>>,
     responses |-> <<"cancel_item_reply_1", "cancel_item_reply_2">>],
    [tag |-> "return_policy",
     patterns |-> <<<<"r", "e", "t", "u", "r", "n", " ", "p", "o", "l", "i", "c", "y">>,
                    <<"r", "e", "f", "u", "n", "d">>>>,
     responses |-> <<"return_policy_reply_1", "return_policy_reply_2">>]>>

TxtHi == <<"H", "i">>
TxtTrack1 == <<"T", "r", "a", "c", "k", " ", "m", "y", " ", "o", "r", "d", "e", "r", " ", "O", "R", "D", "1">>
TxtCancel1 == <<"C", "a", "n", "c", "e", "l", " ", "o", "r", "d", "e", "r", " ", "O", "R", "D", "1">>
TxtCancel2 == <<"c", "a", "n", "c", "e", "l", " ", "o", "r", "d", "e", "r", " ", "i", "d", ":", " ", "o", "r", "d", "2">>
TxtCancel3 == <<"C", "a", "n", "c", "e", "l", " ", "o", "r", "d", "e", "r", " ", "O", "R", "D", "3">>
TxtPolicy == <<"W", "h", "a", "t", " ", "i", "s", " ", "y", "o", "u", "r", " ", "r", "e", "t", "u", "r", "n", " ", "p", "o", "l", "i", "c", "y">>
Inputs == {TxtHi, TxtTrack1, TxtCancel1, TxtCancel2, TxtCancel3, TxtPolicy}

\* further texts: empty, matching nothing, without an order id, naming an
\* order stored in another letter case or not stored, a pattern word alone
TxtEmpty == <<>>
TxtUnknown == <<"x", "y", "z", "z", "y">>
TxtTrackNoId == <<"t", "r", "a", "c", "k", " ", "m", "y", " ", "o", "r", "d", "e", "r">>
TxtTrack3 == <<"T", "r", "a", "c", "k", " ", "m", "y", " ", "o", "r", "d", "e", "r", " ", "O", "R", "D", "3">>
TxtTrack9 == <<"T", "r", "a", "c", "k", " ", "m", "y", " ", "o", "r", "d", "e", "r", " ", "O", "R", "D", "9">>
TxtCancelNoId == <<"c", "a", "n", "c", "e", "l", " ", "o", "r", "d", "e", "r">>
TxtCancel9 == <<"C", "a", "n", "c", "e", "l", " ", "o", "r", "d", "e", "r", " ", "O", "R", "D", "9">>
TxtRefund == <<"r", "e", "f", "u", "n", "d">>
Texts == Inputs \cup {TxtEmpty, TxtUnknown, TxtTrackNoId, TxtTrack3, TxtTrack9, TxtCancelNoId, TxtCancel9, TxtRefund}

IdORD1 == <<"O", "R", "D", "1">>
IdOrd1 == <<"o", "r", "d", "1">>
IdORD2 == <<"O", "R", "D", "2">>
IdOrd2 == <<"o", "r", "d", "2">>
IdORd2 == <<"O", "R", "d", "2">>
IdOrd3 == <<"o", "r", "d", "3">>
IdORD3 == <<"O", "R", "D", "3">>
IdORD4 == <<"O", "R", "D", "4">>
IdORD5 == <<"O", "R", "D", "5">>
IdORD9 == <<"O", "R", "D", "9">>

\* ids callers look up: as stored, in another case, and unknown
LookupIds == {IdORD1, IdORD3, IdORD9}

\* ids callers ask to cancel: as stored, in another case, and unknown
OrderIds == {IdORD1, IdOrd2, IdORD3, IdORD4, IdORD5, IdORD9}

\* ids in several cases: of stored orders (ORD1, ORD2 and ord3) and an unknown one
CaseIds == {IdORD1, IdOrd1, IdORD2, IdOrd2, IdORd2, IdOrd3, IdORD3, IdORD9}

faqs == <<[question |-> "faq_question_1", answer |-> "faq_answer_1"],
          [question |-> "faq_question_2", answer |-> "faq_answer_2"]>>

\* Cosine similarities of a query to the two FAQ questions, in hundredths:
\* no question close, one at the threshold and one above, two equally close.
SimVectors == {<<0, 0>>, <<10, 50>>, <<50, 50>>}

CustomerIds == {"CUST1", "CUST2"}
ContextKeys == {"user_id"}
ContextValues == {"USER_123", "USER_456"}

\* The order store as loaded: one order per status.
SeedOrders ==
    <<[order_id |-> IdORD1, customer_id |-> "CUST1", status |-> "pending",
       delivery_date |-> "2024-01-10"],
      [order_id |-> IdORD2, customer_id |-> "CUST2", status |-> "processing",
       delivery_date |-> "2024-01-12"],
      [order_id |-> IdOrd3, customer_id |-> "CUST1", status |-> "shipped",
       delivery_date |-> "2024-01-05"],
      [order_id |-> IdORD4, customer_id |-> "CUST2", status |-> "delivered",
       delivery_date |-> "2024-01-02"],
      [order_id |-> IdORD5, customer_id |-> "CUST1", status |-> "cancelled",
       delivery_date |-> "2024-01-15"]>>

(***************************************************************************)
(* IntentClassifier.classify.  Scores are counted in halves (a phrase is   *)
(* 2.0 = 4 halves, a word 0.5 = 1 half), confidences in twentieths         *)
(* (score / 10 = halves / 20; 0.3 = 6 twentieths).                         *)
(***************************************************************************)
PhraseScore == 4
WordScore == 1
FullConfidence == 20
FallbackConfidence == 6

RECURSIVE SumSeq(_)
SumSeq(q) == IF q = <<>> THEN 0 ELSE Head(q) + SumSeq(Tail(q))

\* a pattern scored by its words only, the test for the whole phrase dropped
PatternScoreWordsOnly(pattern, user_input_lower) ==
    LET pattern_words == Split(Lower(pattern))
    IN  WordScore * Cardinality({i \in DOMAIN pattern_words :
                                    Contains(user_input_lower, pattern_words[i])})

\* the score one pattern adds for a lower-cased input
PatternScore(pattern, user_input_lower) ==
    LET pattern_lower == Lower(pattern)
        pattern_words == Split(pattern_lower)
    IN  IF Contains(user_input_lower, pattern_lower)
        THEN PhraseScore
        ELSE WordScore * Cardinality({i \in DOMAIN pattern_words :
                                         Contains(user_input_lower, pattern_words[i])})

IntentScore(intent, user_input_lower) ==
    SumSeq([p \in DOMAIN intent.patterns |-> PatternScore(intent.patterns[p], user_input_lower)])

\* intent_scores, per position in the intent definitions
IntentScoresOf(definitions, user_input) ==
    [i \in DOMAIN definitions |-> IntentScore(definitions[i], Lower(user_input))]

IntentScores(user_input) == IntentScoresOf(intents, user_input)

\* classify without the test for a best score of 0
ClassifyOfNoFallback(definitions, user_input) ==
    LET intent_scores == IntentScoresOf(definitions, user_input)
    IN  IF intent_scores = <<>>
        THEN [intent |-> "greeting", confidence |-> FallbackConfidence]
        ELSE LET best == CHOOSE i \in DOMAIN intent_scores :
                             /\ \A j \in DOMAIN intent_scores :
                                   intent_scores[j] <= intent_scores[i]
                             /\ \A j \in 1..(i - 1) : intent_scores[j] < intent_scores[i]
             IN  [intent |-> definitions[best].tag,
                  confidence |-> IF intent_scores[best] < FullConfidence
                                 THEN intent_scores[best] ELSE FullConfidence]

\* classify returning the last intent with the best score
ClassifyOfLastBest(definitions, user_input) ==
    LET intent_scores == IntentScoresOf(definitions, user_input)
        best_score == IF intent_scores = <<>> THEN 0
                      ELSE CHOOSE m \in {intent_scores[i] : i \in DOMAIN intent_scores} :
                               \A i \in DOMAIN intent_scores : intent_scores[i] <= m
    IN  IF intent_scores = <<>> \/ best_score = 0
        THEN [intent |-> "greeting", confidence |-> FallbackConfidence]
        ELSE LET best == CHOOSE i \in DOMAIN intent_scores :
                             /\ intent_scores[i] = best_score
                             /\ \A j \in (i + 1)..Len(intent_scores) :
                                   intent_scores[j] < best_score
             IN  [intent |-> definitions[best].tag,
                  confidence |-> IF intent_scores[best] < FullConfidence
                                 THEN intent_scores[best] ELSE FullConfidence]

\* classify with the confidence left at score / 10, the min(..., 1.0) dropped
ClassifyOfUncapped(definitions, user_input) ==
    LET intent_scores == IntentScoresOf(definitions, user_input)
        best_score == IF intent_scores = <<>> THEN 0
                      ELSE CHOOSE m \in {intent_scores[i] : i \in DOMAIN intent_scores} :
                               \A i \in DOMAIN intent_scores : intent_scores[i] <= m
    IN  IF intent_scores = <<>> \/ best_score = 0
        THEN [intent |-> "greeting", confidence |-> FallbackConfidence]
        ELSE LET best == CHOOSE i \in DOMAIN intent_scores :
                             /\ intent_scores[i] = best_score
                             /\ \A j \in 1..(i - 1) : intent_scores[j] < best_score
             IN  [intent |-> definitions[best].tag,
                  confidence |-> intent_scores[best]]

\* classify, for a classifier that loaded `definitions`
ClassifyOf(definitions, user_input) ==
    LET intent_scores == IntentScoresOf(definitions, user_input)
        best_score == IF intent_scores = <<>> THEN 0
                      ELSE CHOOSE m \in {intent_scores[i] : i \in DOMAIN intent_scores} :
                               \A i \in DOMAIN intent_scores : intent_scores[i] <= m
    IN  IF intent_scores = <<>> \/ best_score = 0
        THEN [intent |-> "greeting", confidence |-> FallbackConfidence]
        ELSE \* max(intent_scores, key=...): the first intent with the best score
             LET best == CHOOSE i \in DOMAIN intent_scores :
                             /\ intent_scores[i] = best_score
                             /\ \A j \in 1..(i - 1) : intent_scores[j] < best_score
             IN  [intent |-> definitions[best].tag,
                  confidence |-> IF intent_scores[best] < FullConfidence
                                 THEN intent_scores[best] ELSE FullConfidence]

\* classify, for the classifier of the DialogueSystem
Classify(user_input) == ClassifyOf(intents, user_input)

\* classify, tabulated over the texts users send
Classified == [t \in Texts |-> Classify(t)]

\* the texts _handle_intent passes to the retriever
RetrievedTexts ==
    {t \in Texts : Classified[t].intent \notin {"track_order", "cancel_item", "greeting"}}

(***************************************************************************)
(* ResponseGenerator.generate: the texts random.choice can return.         *)
(***************************************************************************)
Text(t) == [kind |-> "text", order_id |-> <<>>, status |-> "", delivery_date |-> "", text |-> t]

\* an empty reply
EmptyReply == Text("")

DidNotUnderstand == Text("I'm sorry, I didn't understand that. Can you please rephrase?")

Generate(intent) ==
    IF \A i \in DOMAIN intents : intents[i].tag # intent
    THEN {DidNotUnderstand}
    ELSE \* response_map[tag] is overwritten by a later definition of the same tag
         LET last == CHOOSE i \in DOMAIN intents :
                         /\ intents[i].tag = intent
                         /\ \A j \in DOMAIN intents : intents[j].tag = intent => j <= i
         IN  {Text(intents[last].responses[r]) : r \in DOMAIN intents[last].responses}

(***************************************************************************)
(* IRBasedQA.retrieve                                                      *)
(***************************************************************************)
\* similarities[idx] > 0.1, in hundredths
SimilarityThreshold == 10

Reverse(q) == [i \in DOMAIN q |-> q[Len(q) + 1 - i]]

\* np.argsort(similarities): the indices in ascending order of similarity;
\* the order among equal similarities is not specified by the sort used.
Argsorts(sim) ==
    {p \in [DOMAIN sim -> DOMAIN sim] :
        /\ \A i, j \in DOMAIN sim : i # j => p[i] # p[j]
        /\ \A i, j \in DOMAIN sim : i < j => sim[p[i]] <= sim[p[j]]}

\* retrieve keeping every one of the top_k documents, the test of line 28 dropped
RetrieveNoThreshold(query, top_k) ==
    LET sim == similarities[query]
    IN  {LET kept == SubSeq(Reverse(p), 1, IF top_k < Len(p) THEN top_k ELSE Len(p))
         IN  [i \in DOMAIN kept |-> [question |-> faqs[kept[i]].question,
                                     answer |-> faqs[kept[i]].answer,
                                     score |-> sim[kept[i]]]]
         : p \in Argsorts(sim)}

\* the result lists retrieve(query, top_k) can return, for top_k >= 0
Retrieve(query, top_k) ==
    LET sim == similarities[query]
    IN  {LET top_indices == SubSeq(Reverse(p), 1, IF top_k < Len(p) THEN top_k ELSE Len(p))
             kept == SelectSeq(top_indices, LAMBDA idx : sim[idx] > SimilarityThreshold)
         IN  [i \in DOMAIN kept |-> [question |-> faqs[kept[i]].question,
                                     answer |-> faqs[kept[i]].answer,
                                     score |-> sim[kept[i]]]]
         : p \in Argsorts(sim)}

(***************************************************************************)
(* DialogueSystem._extract_order_id                                        *)
(***************************************************************************)
\* [A-Z0-9]+ from position j: the longest run of letters and digits
RECURSIVE RunEnd(_, _)
RunEnd(s, j) == IF j <= Len(s) /\ IsAlnum(s[j]) THEN RunEnd(s, j + 1) ELSE j
Capture(s, j) == SubSeq(s, j, RunEnd(s, j) - 1)

\* \s* from position j
RECURSIVE SkipSpaces(_, _)
SkipSpaces(s, j) == IF j <= Len(s) /\ IsSpace(s[j]) THEN SkipSpaces(s, j + 1) ELSE j

\* :?\s* from position j
SkipColonSpaces(s, j) ==
    IF j <= Len(s) /\ s[j] = ":" THEN SkipSpaces(s, j + 1) ELSE SkipSpaces(s, j)

\* the match after "order" with (?:id)? left out of the pattern
MatchAfterOrderNoId(s, j) == Capture(s, SkipColonSpaces(s, SkipSpaces(s, j)))

\* \s*(?:id)?:?\s*([A-Z0-9]+) from position j, right after "order": the group
\* captured, <<>> when there is no match.  "id" is taken when the rest then
\* matches; otherwise the match is retried with (?:id)? empty.
MatchAfterOrder(s, j) ==
    LET a == SkipSpaces(s, j)
        has_id == a + 1 <= Len(s) /\ Lower(SubSeq(s, a, a + 1)) = <<"i", "d">>
        with_id == Capture(s, SkipColonSpaces(s, a + 2))
    IN  IF has_id /\ with_id # <<>> THEN with_id
        ELSE Capture(s, SkipColonSpaces(s, a))

\* _extract_order_id: re.search finds the leftmost match; <<>> stands for None
ExtractOrderId(text) ==
    LET starts == {i \in 1..(Len(text) - 4) :
                      /\ Lower(SubSeq(text, i, i + 4)) = <<"o", "r", "d", "e", "r">>
                      /\ MatchAfterOrder(text, i + 5) # <<>>}
    IN  IF starts = {} THEN <<>>
        ELSE MatchAfterOrder(text, (CHOOSE i \in starts : \A k \in starts : i <= k) + 5)

\* _extract_order_id, tabulated over the texts users send
ExtractedOrderId == [t \in Texts |-> ExtractOrderId(t)]

(***************************************************************************)
(* OrderTracker                                                            *)
(***************************************************************************)
\* every id that reaches the tracker: stored, asked for, or read from a text
KnownIds ==
    {SeedOrders[i].order_id : i \in DOMAIN SeedOrders} \cup OrderIds \cup CaseIds
        \cup {ExtractedOrderId[t] : t \in Texts}

\* str.upper, tabulated over those ids
UpperId == [id \in KnownIds |-> Upper(id)]

\* the ids compared as they are, .upper() dropped
MatchesExact(order, order_id) == order.order_id = order_id

\* order['order_id'].upper() == order_id.upper()
Matches(order, order_id) == UpperId[order.order_id] = UpperId[order_id]

\* get_order: the position of the first order with that id, 0 for None
GetOrderIndex(order_id) ==
    IF \E i \in DOMAIN orders : Matches(orders[i], order_id)
    THEN CHOOSE i \in DOMAIN orders :
             /\ Matches(orders[i], order_id)
             /\ \A j \in 1..(i - 1) : ~Matches(orders[j], order_id)
    ELSE 0

\* if order['status'] in ['pending', 'processing'], with the test dropped
CancellableAlways(status) == TRUE

\* if order['status'] in ['pending', 'processing']
Cancellable(status) == status \in {"pending", "processing"}

\* cancel_order that reports success for any order with the id
CancelOrderReportsMatch(order_id) ==
    LET hits == {i \in DOMAIN orders : Matches(orders[i], order_id) /\ Cancellable(orders[i].status)}
    IN  IF hits = {}
        THEN [orders |-> orders, ret |-> \E i \in DOMAIN orders : Matches(orders[i], order_id)]
        ELSE LET first == CHOOSE i \in hits : \A j \in hits : i <= j
             IN  [orders |-> [orders EXCEPT ![first].status = "cancelled"], ret |-> TRUE]

\* cancel_order: the loop stops at the first order with that id that is
\* cancellable; an order with the id that is not cancellable is passed over
CancelOrderOutcome(order_id) ==
    LET hits == {i \in DOMAIN orders : Matches(orders[i], order_id) /\ Cancellable(orders[i].status)}
    IN  IF hits = {}
        THEN [orders |-> orders, ret |-> FALSE]
        ELSE LET first == CHOOSE i \in hits : \A j \in hits : i <= j
             IN  [orders |-> [orders EXCEPT ![first].status = "cancelled"], ret |-> TRUE]

\* list_user_orders
ListUserOrdersResult(customer_id) ==
    SelectSeq(orders, LAMBDA o : o.customer_id = customer_id)

(***************************************************************************)
(* DialogueSystem                                                          *)
(***************************************************************************)
\* the status reply without the delivery date
OrderStatusReplyWithoutDate(order_id, order) ==
    [kind |-> "order_status", order_id |-> order_id, status |-> order.status,
     delivery_date |-> "", text |-> "Your order {order_id} is {status}."]

OrderStatusReply(order_id, order) ==
    [kind |-> "order_status", order_id |-> order_id, status |-> order.status,
     delivery_date |-> order.delivery_date,
     text |-> "Your order {order_id} is {status}. Expected delivery: {delivery_date}"]

OrderNotFound == Text("I couldn't find your order. Please provide your order ID.")

CancelledReply(order_id) ==
    [kind |-> "cancelled", order_id |-> order_id, status |-> "", delivery_date |-> "",
     text |-> "Order {order_id} has been cancelled successfully."]

UnableToCancel == Text("Unable to cancel this order. It may have already shipped.")

\* _handle_track_order
HandleTrackOrder(user_input) ==
    LET order_id == ExtractedOrderId[user_input]
        found == IF order_id # <<>> THEN GetOrderIndex(order_id) ELSE 0
    IN  [response |-> IF found # 0 THEN OrderStatusReply(order_id, orders[found])
                      ELSE OrderNotFound,
         orders |-> orders]

\* _handle_cancel_item that confirms for any order found, whatever its status
HandleCancelItemUnchecked(user_input) ==
    LET order_id == ExtractedOrderId[user_input]
        found == IF order_id # <<>> THEN GetOrderIndex(order_id) ELSE 0
    IN  IF found # 0
        THEN [response |-> [kind |-> "cancelled", order_id |-> order_id, status |-> "",
                            delivery_date |-> "",
                            text |-> "Order {order_id} has been cancelled successfully."],
              orders |-> CancelOrderOutcome(order_id).orders]
        ELSE [response |-> Text("Unable to cancel this order. It may have already shipped."),
              orders |-> orders]

\* _handle_cancel_item
HandleCancelItem(user_input) ==
    LET order_id == ExtractedOrderId[user_input]
        found == IF order_id # <<>> THEN GetOrderIndex(order_id) ELSE 0
    IN  IF found # 0 /\ orders[found].status \in {"pending", "processing"}
        THEN [response |-> CancelledReply(order_id),
              orders |-> CancelOrderOutcome(order_id).orders]
        ELSE [response |-> UnableToCancel, orders |-> orders]

\* _handle_intent that answers every intent but the two order intents from
\* the intent's templates
HandleIntentTemplates(intent, user_input) ==
    IF intent = "track_order" THEN {HandleTrackOrder(user_input)}
    ELSE IF intent = "cancel_item" THEN {HandleCancelItem(user_input)}
    ELSE {[response |-> r, orders |-> orders] : r \in Generate(intent)}

\* _handle_intent that routes by intent only in the first turn of a history
HandleIntentFirstTurnOnly(intent, user_input) ==
    IF turns > 0 THEN {[response |-> DidNotUnderstand, orders |-> orders]}
    ELSE IF intent = "track_order" THEN {HandleTrackOrder(user_input)}
    ELSE IF intent = "cancel_item" THEN {HandleCancelItem(user_input)}
    ELSE IF intent = "greeting"
    THEN {[response |-> r, orders |-> orders] : r \in Generate(intent)}
    ELSE UNION {IF qa_results # <<>>
                THEN {[response |-> Text(qa_results[1].answer), orders |-> orders]}
                ELSE {[response |-> r, orders |-> orders] : r \in Generate("default")}
                : qa_results \in Retrieve(user_input, 1)}

\* _handle_intent: the outcomes the call can have (the template is chosen at
\* random, the order of tied retrieval hits is the sort's)
HandleIntent(intent, user_input) ==
    IF intent = "track_order" THEN {HandleTrackOrder(user_input)}
    ELSE IF intent = "cancel_item" THEN {HandleCancelItem(user_input)}
    ELSE IF intent = "greeting"
    THEN {[response |-> r, orders |-> orders] : r \in Generate(intent)}
    ELSE UNION {IF qa_results # <<>>
                THEN {[response |-> Text(qa_results[1].answer), orders |-> orders]}
                ELSE {[response |-> r, orders |-> orders] : r \in Generate("default")}
                : qa_results \in Retrieve(user_input, 1)}

UserEntry(user_input) ==
    [timestamp |-> now, user |-> user_input, type |-> "user"]

AssistantEntry(response, intent, confidence) ==
    [timestamp |-> now, assistant |-> response, type |-> "assistant",
     intent |-> intent, confidence |-> confidence]

\* process_input that records only the assistant's turn
TurnWithoutUser(user_input, response) ==
    <<AssistantEntry(response, Classified[user_input].intent,
                     Classified[user_input].confidence)>>

\* the entries one process_input call appends to the history
Turn(user_input, response) ==
    <<UserEntry(user_input),
      AssistantEntry(response, Classified[user_input].intent,
                     Classified[user_input].confidence)>>

\* no classify call made yet
NoResult == [intent |-> "none", confidence |-> 0]

\* small definition sets: none at all; a phrase of two words and a one-word
\* phrase; two one-letter phrases; an intent with six short phrases and a
\* second intent with one
NoDefinitions == <<>>
PhraseDefinitions ==
    <<[tag |-> "track_order", patterns |-> <<<<"h", "i", " ", "x">>>>, responses |-> <<"track_order_reply_1">>],
      [tag |-> "goodbye", patterns |-> <<<<"H", "i">>>>, responses |-> <<"goodbye_reply_1">>]>>
LetterDefinitions ==
    <<[tag |-> "track_order", patterns |-> <<<<"h">>>>, responses |-> <<"track_order_reply_1">>],
      [tag |-> "cancel_item", patterns |-> <<<<"i">>>>, responses |-> <<"cancel_item_reply_1">>]>>
ManyDefinitions ==
    <<[tag |-> "greeting", patterns |-> <<<<"x">>>>, responses |-> <<"greeting_reply_1">>],
      [tag |-> "track_order",
       patterns |-> <<<<"h">>, <<"i">>, <<"h", "i">>, <<"H">>, <<"I">>, <<"H", "i">>>>,
       responses |-> <<"track_order_reply_1">>]>>
\* what the classifier can have loaded, by name
Definitions ==
    [intents |-> intents, none |-> NoDefinitions, phrases |-> PhraseDefinitions,
     letters |-> LetterDefinitions, many |-> ManyDefinitions]

\* IntentClassifier.__init__
NewClassifier(loaded) ==
    classifier = [loaded |-> loaded, user_input |-> <<>>, result |-> NoResult]

NoDialogueCall == [op |-> "none", arg |-> <<>>, ok |-> FALSE, found |-> <<>>,
                   response |-> Text("")]

\* The components after construction, given what the data files hold.
NewDialogue(policy_similarity) ==
    /\ orders = SeedOrders
    /\ similarities = [t \in RetrievedTexts |-> policy_similarity]
    /\ conversation_history = <<>>
    /\ user_context = << >>
    /\ dlgCall = NoDialogueCall
    /\ turns = 0
    /\ NewClassifier("intents")

\* No session id passed (session_id=None), and the ids callers pass.
NoSession == [id |-> "", user |-> "", at |-> 0]
SessionIds == {[id |-> "S1", user |-> "", at |-> 0], [id |-> "S2", user |-> "", at |-> 0]}
UserIds == {"U1", "U2"}

\* _generate_session_id: md5 of the user id and the time of the call; the
\* calls made so far stand for the time.
GenerateSessionId(user_id) == [id |-> "md5", user |-> user_id, at |-> turns]

NoApiCall == [op |-> "none", success |-> FALSE, user_id |-> "", session_id |-> NoSession,
              response |-> Text(""), error |-> ""]

\* ChatbotAPIWrapper.__init__, after the DialogueSystem it builds
NewAPIWrapper ==
    /\ sessions = << >>
    /\ apiCall = NoApiCall
    /\ historyOwners = {}

(***************************************************************************)
(* ConnectionPool, called by one thread.  A connection is any object the   *)
(* caller hands to release_connection; the pool creates none itself.       *)
(***************************************************************************)
MaxPoolSize == 3

Connections == {"conn_a", "conn_b", "conn_c"}
NoConnection == "None"

\* the timeouts callers pass: none at all and the default of 5 seconds
Timeouts == {0, 5}

NoPoolCall == [op |-> "none", connection |-> NoConnection, ret |-> NoConnection]

\* ConnectionPool.__init__(pool_size)
NewConnectionPool(pool_size) ==
    /\ pool = [pool_size |-> pool_size,
               available_connections |-> <<>>,
               active_connections |-> 0,
               max_connections |-> pool_size * 2]
    /\ poolCall = NoPoolCall

\* get_connection(timeout): the loop body runs while the time waited is
\* below the timeout; with one thread an empty pool stays empty until then
GetConnectionOutcome(timeout) ==
    IF timeout > 0 /\ pool.available_connections # <<>>
    THEN LET n == Len(pool.available_connections)
         IN  [pool |-> [pool EXCEPT
                           !.available_connections = SubSeq(@, 1, n - 1),
                           !.active_connections = @ + 1],
              ret |-> pool.available_connections[n]]
    ELSE [pool |-> pool, ret |-> NoConnection]

\* release_connection with the test for active_connections > 0 dropped
ReleaseConnectionUnguarded(connection) ==
    LET decremented == [pool EXCEPT !.active_connections = @ - 1]
    IN  IF Len(decremented.available_connections) < decremented.pool_size
        THEN [decremented EXCEPT !.available_connections = Append(@, connection)]
        ELSE decremented

\* the pool after release_connection(connection)
ReleaseConnectionOutcome(connection) ==
    LET decremented == IF pool.active_connections > 0
                   THEN [pool EXCEPT !.active_connections = @ - 1]
                   ELSE pool
    IN  IF Len(decremented.available_connections) < decremented.pool_size
        THEN [decremented EXCEPT !.available_connections = Append(@, connection)]
        ELSE decremented

GetConnection(timeout) ==
    /\ LET o == GetConnectionOutcome(timeout)
       IN  /\ pool' = o.pool
           /\ poolCall' = [op |-> "get_connection", connection |-> NoConnection,
                           ret |-> o.ret]
    /\ UNCHANGED <<cacheVars, historyVars, threadVars, dialogueVars, apiVars>>

ReleaseConnection(connection) ==
    /\ pool' = ReleaseConnectionOutcome(connection)
    /\ poolCall' = [op |-> "release_connection", connection |-> connection,
                    ret |-> NoConnection]
    /\ UNCHANGED <<cacheVars, historyVars, threadVars, dialogueVars, apiVars>>

(***************************************************************************)
(* OrderedDict helpers.                                                    *)
(***************************************************************************)
KeysOf(c) == {c[i].key : i \in DOMAIN c}

ValueOf(c, k) == c[CHOOSE i \in DOMAIN c : c[i].key = k].value

RECURSIVE Remove(_, _)
Remove(c, k) ==
    IF c = <<>> THEN <<>>
    ELSE IF Head(c).key = k THEN Remove(Tail(c), k)
    ELSE <<Head(c)>> \o Remove(Tail(c), k)

DropKey(f, k) == [j \in (DOMAIN f) \ {k} |-> f[j]]

SetKey(f, k, v) == [j \in (DOMAIN f) \cup {k} |-> IF j = k THEN v ELSE f[j]]

Threads == 1..NumThreads

Idle == [op |-> "none", key |-> None, value |-> None, removed_key |-> None,
         tmp |-> 0, ret |-> None, exc |-> "none"]

NoCall == [op |-> "none", key |-> None, ret |-> None, exc |-> "none"]

(***************************************************************************)
(* LRUCache._is_expired                                                    *)
(***************************************************************************)
IsExpired(key) ==
    IF key \notin DOMAIN timestamps THEN TRUE
    ELSE (now - timestamps[key]) > ttl_seconds

(***************************************************************************)
(* LRUCache.get: the fields and the result after get(key).  A raised       *)
(* exception leaves the assignments made before it in place.               *)
(***************************************************************************)
\* A get that drops an expired entry without recording the miss.
GetOutcomeSilentExpiry(key) ==
    IF key \notin KeysOf(cache)
    THEN [cache |-> cache, timestamps |-> timestamps,
          cache_hits |-> cache_hits, cache_misses |-> cache_misses + 1,
          ret |-> None, exc |-> "none"]
    ELSE IF IsExpired(key)
    THEN [cache |-> Remove(cache, key),
          timestamps |-> IF key \in DOMAIN timestamps
                         THEN DropKey(timestamps, key) ELSE timestamps,
          cache_hits |-> cache_hits, cache_misses |-> cache_misses,
          ret |-> None,
          exc |-> IF key \in DOMAIN timestamps THEN "none" ELSE "KeyError"]
    ELSE [cache |-> Append(Remove(cache, key), [key |-> key, value |-> ValueOf(cache, key)]),
          timestamps |-> timestamps,
          cache_hits |-> cache_hits + 1, cache_misses |-> cache_misses,
          ret |-> ValueOf(cache, key), exc |-> "none"]

GetOutcome(key) ==
    IF key \notin KeysOf(cache) \/ IsExpired(key)
    THEN IF key \in KeysOf(cache)
         THEN IF key \in DOMAIN timestamps
              THEN [cache |-> Remove(cache, key),
                    timestamps |-> DropKey(timestamps, key),
                    cache_hits |-> cache_hits, cache_misses |-> cache_misses + 1,
                    ret |-> None, exc |-> "none"]
              ELSE \* del self.timestamps[key] on a key that has no timestamp
                   [cache |-> Remove(cache, key),
                    timestamps |-> timestamps,
                    cache_hits |-> cache_hits, cache_misses |-> cache_misses + 1,
                    ret |-> None, exc |-> "KeyError"]
         ELSE [cache |-> cache, timestamps |-> timestamps,
               cache_hits |-> cache_hits, cache_misses |-> cache_misses + 1,
               ret |-> None, exc |-> "none"]
    ELSE [cache |-> Append(Remove(cache, key), [key |-> key, value |-> ValueOf(cache, key)]),
          timestamps |-> timestamps,
          cache_hits |-> cache_hits + 1, cache_misses |-> cache_misses,
          ret |-> ValueOf(cache, key), exc |-> "none"]

(***************************************************************************)
(* LRUCache.put                                                            *)
(***************************************************************************)
\* A put that never evicts (the capacity test dropped).
AtCapacityNever(c) == FALSE

\* len(self.cache) >= self.max_size
AtCapacity(c) == Len(c) >= max_size

Stored(c, ts, key, value) ==
    [cache |-> Append(c, [key |-> key, value |-> value]),
     timestamps |-> SetKey(ts, key, now),
     exc |-> "none"]

\* A put that tests the capacity before it tests whether the key is stored.
PutOutcomeEvictFirst(c, ts, key, value) ==
    IF AtCapacity(c)
    THEN IF c = <<>>
         THEN [cache |-> c, timestamps |-> ts, exc |-> "KeyError"]
         ELSE IF Tail(c) = <<>>
         THEN [cache |-> <<>>, timestamps |-> ts, exc |-> "StopIteration"]
         ELSE LET removed_key == Tail(c)[1].key
              IN  Stored(Remove(Tail(c), key),
                         IF removed_key \in DOMAIN ts
                         THEN DropKey(ts, removed_key) ELSE ts,
                         key, value)
    ELSE Stored(Remove(c, key), ts, key, value)

\* put on a cache whose dicts are c and ts
PutOutcomeIn(c, ts, key, value) ==
    IF key \in KeysOf(c)
    THEN Stored(Remove(c, key), ts, key, value)
    ELSE IF AtCapacity(c)
    THEN IF c = <<>>
         THEN \* popitem on an empty OrderedDict
              [cache |-> c, timestamps |-> ts, exc |-> "KeyError"]
         ELSE IF Tail(c) = <<>>
         THEN \* next(iter(self.cache)) after the only entry was popped
              [cache |-> <<>>, timestamps |-> ts, exc |-> "StopIteration"]
         ELSE \* removed_key is the first key left after the pop
              LET removed_key == Tail(c)[1].key
              IN  Stored(Tail(c),
                         IF removed_key \in DOMAIN ts
                         THEN DropKey(ts, removed_key) ELSE ts,
                         key, value)
    ELSE Stored(c, ts, key, value)

PutOutcome(key, value) == PutOutcomeIn(cache, timestamps, key, value)

(***************************************************************************)
(* Bookkeeping of the calls made (not program state).                      *)
(***************************************************************************)
NoFill == [ok |-> FALSE, puts |-> <<>>]
EmptyFill == [ok |-> TRUE, puts |-> <<>>]
NoHit == [key |-> None, value |-> None, at |-> NoTime, new |-> {}]

PutTimeAfter(c, key, stored) ==
    [j \in Keys |-> IF j \notin KeysOf(c) THEN NoTime
                    ELSE IF stored /\ j = key THEN now
                    ELSE putTime[j]]

FillAfterPut(key, value) ==
    IF fill.ok /\ Len(fill.puts) <= max_size
       /\ key \notin {fill.puts[i].key : i \in DOMAIN fill.puts}
    THEN [ok |-> TRUE, puts |-> Append(fill.puts, [key |-> key, value |-> value, at |-> now])]
    ELSE NoFill

HitAfterPut(key) ==
    IF hit.key = None \/ hit.key = key THEN NoHit
    ELSE IF key \in KeysOf(cache) THEN hit
    ELSE [hit EXCEPT !.new = @ \cup {key}]

(***************************************************************************)
(* The sequential cache: one call at a time.                               *)
(***************************************************************************)
Get(key) ==
    /\ steps < MaxSteps
    /\ steps' = steps + 1
    /\ LET o == GetOutcome(key)
       IN  /\ cache' = o.cache
           /\ timestamps' = o.timestamps
           /\ cache_hits' = o.cache_hits
           /\ cache_misses' = o.cache_misses
           /\ cacheCall' = [op |-> "get", key |-> key,
                            ret |-> o.ret, exc |-> o.exc]
           /\ putTime' = PutTimeAfter(o.cache, key, FALSE)
           /\ fill' = NoFill
           /\ computed' = computed
           /\ getCalls' = getCalls + 1
           /\ hit' = IF o.exc = "none" /\ o.cache_hits > cache_hits
                     THEN [key |-> key, value |-> o.ret, at |-> timestamps[key], new |-> {}]
                     ELSE NoHit
    /\ UNCHANGED <<max_size, ttl_seconds, now>>
    /\ UNCHANGED outsideCache

Put(key, value) ==
    /\ steps < MaxSteps
    /\ steps' = steps + 1
    /\ LET o == PutOutcome(key, value)
       IN  /\ cache' = o.cache
           /\ timestamps' = o.timestamps
           /\ cacheCall' = [op |-> "put", key |-> key,
                            ret |-> None, exc |-> o.exc]
           /\ putTime' = PutTimeAfter(o.cache, key, o.exc = "none")
    /\ fill' = FillAfterPut(key, value)
    /\ hit' = HitAfterPut(key)
    /\ computed' = computed
    /\ getCalls' = getCalls
    /\ UNCHANGED <<max_size, ttl_seconds, now, cache_hits, cache_misses>>
    /\ UNCHANGED outsideCache

Clear ==
    /\ steps < MaxSteps
    /\ steps' = steps + 1
    /\ cache' = <<>>
    /\ timestamps' = << >>
    /\ cacheCall' = [NoCall EXCEPT !.op = "clear"]
    /\ putTime' = [j \in Keys |-> NoTime]
    /\ fill' = EmptyFill
    /\ hit' = NoHit
    /\ computed' = computed
    /\ getCalls' = getCalls
    /\ UNCHANGED <<max_size, ttl_seconds, now, cache_hits, cache_misses>>
    /\ UNCHANGED outsideCache

\* Time passes and a sweep drops the entries whose age then exceeds the TTL.
TickSweeping ==
    /\ steps < MaxSteps
    /\ steps' = steps + 1
    /\ now' = now + 1
    /\ LET Live(e) == /\ e.key \in DOMAIN timestamps
                      /\ (now + 1 - timestamps[e.key]) <= ttl_seconds
       IN  /\ cache' = SelectSeq(cache, Live)
           /\ timestamps' = [j \in {k \in DOMAIN timestamps :
                                       (now + 1 - timestamps[k]) <= ttl_seconds}
                               |-> timestamps[j]]
    /\ UNCHANGED <<max_size, ttl_seconds, cache_hits, cache_misses, cacheCall,
                   historyVars>>
    /\ UNCHANGED outsideCache

\* Time passes between two calls.
Tick ==
    /\ steps < MaxSteps
    /\ steps' = steps + 1
    /\ now' = now + 1
    /\ UNCHANGED <<max_size, ttl_seconds, cache, timestamps, cache_hits,
                   cache_misses, cacheCall, historyVars>>
    /\ UNCHANGED outsideCache

\* LRUCache.__init__(max_size, ttl_seconds), before any call
NewCache(size, ttl) ==
    /\ max_size = size
    /\ ttl_seconds = ttl
    /\ cache = <<>>
    /\ timestamps = << >>
    /\ cache_hits = 0
    /\ cache_misses = 0
    /\ now = 0
    /\ cacheCall = NoCall
    /\ steps = 0
    /\ putTime = [j \in Keys |-> NoTime]
    /\ fill = EmptyFill
    /\ hit = NoHit
    /\ computed = <<>>
    /\ getCalls = 0
    /\ pc = [t \in Threads |-> "idle"]
    /\ local = [t \in Threads |-> Idle]
    /\ counted = 0

Init ==
    /\ \E size \in 0..MaxCap, ttl \in 0..MaxTTL : NewCache(size, ttl)
    /\ NewDialogue([d \in DOMAIN faqs |-> 0])
    /\ NewAPIWrapper
    /\ NewConnectionPool(0)

Next ==
    \/ \E key \in Keys : Get(key)
    \/ \E key \in Keys, value \in Vals : Put(key, value)
    \/ Clear
    \/ Tick

Spec == Init /\ [][Next]_vars

(***************************************************************************)
(* C1: for a cache with capacity >= 1, the number of stored entries never  *)
(* exceeds max_size after any sequence of get, put and clear calls.        *)
(***************************************************************************)
C1_SizeBounded == (max_size >= 1) => (Len(cache) <= max_size)

\* A put of a new key into a full cache has just evicted and stored.
C1_Witness ==
    /\ max_size >= 1
    /\ fill.ok
    /\ Len(fill.puts) = max_size + 1
    /\ cacheCall.op = "put" /\ cacheCall.exc = "none"
    /\ Len(cache) = max_size

(***************************************************************************)
(* C2: starting from an empty cache of capacity N, after put of N+1        *)
(* distinct keys with no get in between and no TTL expiry, get of the      *)
(* first-inserted key returns absent and get of each of the other N keys   *)
(* returns the value put for it.                                           *)
(***************************************************************************)
FillFresh == \A i \in DOMAIN fill.puts : (now - fill.puts[i].at) <= ttl_seconds

C2_EvictsExactlyOldest ==
    (max_size >= 1 /\ fill.ok /\ Len(fill.puts) = max_size + 1 /\ FillFresh)
    => /\ GetOutcome(fill.puts[1].key).exc = "none"
       /\ GetOutcome(fill.puts[1].key).ret = None
       /\ \A i \in 2..(max_size + 1) :
             /\ GetOutcome(fill.puts[i].key).exc = "none"
             /\ GetOutcome(fill.puts[i].key).ret = fill.puts[i].value

(***************************************************************************)
(* C3: for a key stored by put at time t0, a get at time t returns the     *)
(* stored value when t - t0 <= ttl_seconds; when t - t0 > ttl_seconds it   *)
(* returns absent, removes the entry and reduces the entry count by one.   *)
(***************************************************************************)
C3_GetRespectsTTL ==
    \A key \in KeysOf(cache) :
        LET o == GetOutcome(key)
        IN  IF (now - putTime[key]) <= ttl_seconds
            THEN o.exc = "none" /\ o.ret = ValueOf(cache, key)
            ELSE /\ o.exc = "none"
                 /\ o.ret = None
                 /\ key \notin KeysOf(o.cache)
                 /\ Len(o.cache) = Len(cache) - 1

(***************************************************************************)
(* C4: in every reachable cache state get(key) completes without raising   *)
(* and returns a stored value or absent.                                   *)
(***************************************************************************)
C4_GetNeverRaises ==
    (cacheCall.op = "get")
    => (cacheCall.exc = "none" /\ cacheCall.ret \in Vals \cup {None})

(***************************************************************************)
(* C5: for every capacity >= 1 and every reachable state, put(k, v)        *)
(* completes without raising and a get(k) made right after it returns v.   *)
(***************************************************************************)
C5_PutThenGet ==
    [][\A key \in Keys, value \in Vals :
          (max_size >= 1 /\ Put(key, value))
          => /\ cacheCall'.exc = "none"
             /\ GetOutcome(key)'.exc = "none"
             /\ GetOutcome(key)'.ret = value]_vars

(***************************************************************************)
(* C6: a get(k) that hits makes k most recently used: after it, puts of    *)
(* fewer than max_size distinct new keys (and no TTL expiry) leave k in    *)
(* the cache, so get(k) still returns its value.                           *)
(***************************************************************************)
C6_HitSurvivesPuts ==
    (hit.key # None /\ Cardinality(hit.new) < max_size
        /\ (now - hit.at) <= ttl_seconds)
    => /\ GetOutcome(hit.key).exc = "none"
       /\ GetOutcome(hit.key).ret = hit.value

(***************************************************************************)
(* Threads calling get, put and clear on one LRUCache.  The class takes no *)
(* lock, so a thread may be preempted between any two statements; each     *)
(* action below is one statement (one dict operation) of a call.           *)
(***************************************************************************)
\* self.cache[key] = value: in place when the key is stored, else at the end
SetValue(c, k, v) ==
    IF k \in KeysOf(c)
    THEN [i \in DOMAIN c |-> IF c[i].key = k THEN [key |-> k, value |-> v] ELSE c[i]]
    ELSE Append(c, [key |-> k, value |-> v])

\* self.cache.move_to_end(key)
MoveToEnd(c, k) == Append(Remove(c, k), [key |-> k, value |-> ValueOf(c, k)])

Goto(t, label) ==
    /\ pc' = [pc EXCEPT ![t] = label]
    /\ UNCHANGED local

Return(t, value) ==
    /\ pc' = [pc EXCEPT ![t] = "idle"]
    /\ local' = [local EXCEPT ![t] = [Idle EXCEPT !.op = local[t].op, !.ret = value]]

Raise(t, exception) ==
    /\ pc' = [pc EXCEPT ![t] = "idle"]
    /\ local' = [local EXCEPT ![t] = [Idle EXCEPT !.op = local[t].op, !.exc = exception]]

sharedVars == <<cache, timestamps, cache_hits, cache_misses>>
concFrame == <<max_size, ttl_seconds, now, cacheCall, historyVars, dialogueVars, apiVars,
               poolVars>>

\* A thread enters get, put or clear.
Call(t, op, key, value) ==
    /\ pc[t] = "idle"
    /\ steps < MaxConcCalls
    /\ steps' = steps + 1
    /\ pc' = [pc EXCEPT ![t] = CASE op = "get" -> "get_101"
                                 [] op = "put" -> "put_115"
                                 [] OTHER -> "clear_129"]
    /\ local' = [local EXCEPT ![t] = [Idle EXCEPT !.op = op, !.key = key, !.value = value]]
    /\ UNCHANGED <<sharedVars, counted, concFrame>>

\* line 101: key not in self.cache
Get101(t) ==
    /\ pc[t] = "get_101"
    /\ IF local[t].key \notin KeysOf(cache)
       THEN Goto(t, "get_102") ELSE Goto(t, "get_89")
    /\ UNCHANGED <<sharedVars, counted, steps, concFrame>>

\* line 89 (_is_expired): key not in self.timestamps
Get89(t) ==
    /\ pc[t] = "get_89"
    /\ IF local[t].key \notin DOMAIN timestamps
       THEN Goto(t, "get_102") ELSE Goto(t, "get_91")
    /\ UNCHANGED <<sharedVars, counted, steps, concFrame>>

\* lines 91-92 (_is_expired): age = now - self.timestamps[key]; age > ttl
Get91(t) ==
    /\ pc[t] = "get_91"
    /\ IF local[t].key \notin DOMAIN timestamps
       THEN Raise(t, "KeyError")
       ELSE IF (now - timestamps[local[t].key]) > ttl_seconds
       THEN Goto(t, "get_102") ELSE Goto(t, "get_109")
    /\ UNCHANGED <<sharedVars, counted, steps, concFrame>>

\* line 102: self.metrics.cache_misses += 1, the read
Get102(t) ==
    /\ pc[t] = "get_102"
    /\ pc' = [pc EXCEPT ![t] = "get_102w"]
    /\ local' = [local EXCEPT ![t].tmp = cache_misses]
    /\ UNCHANGED <<sharedVars, counted, steps, concFrame>>

\* line 102: self.metrics.cache_misses += 1, the write
Get102w(t) ==
    /\ pc[t] = "get_102w"
    /\ cache_misses' = local[t].tmp + 1
    /\ counted' = counted + 1
    /\ pc' = [pc EXCEPT ![t] = "get_103"]
    /\ local' = [local EXCEPT ![t].tmp = 0]
    /\ UNCHANGED <<cache, timestamps, cache_hits, steps, concFrame>>

\* line 103: if key in self.cache, else line 106: return None
Get103(t) ==
    /\ pc[t] = "get_103"
    /\ IF local[t].key \in KeysOf(cache)
       THEN Goto(t, "get_104") ELSE Return(t, None)
    /\ UNCHANGED <<sharedVars, counted, steps, concFrame>>

\* line 104: del self.cache[key]
Get104(t) ==
    /\ pc[t] = "get_104"
    /\ IF local[t].key \in KeysOf(cache)
       THEN cache' = Remove(cache, local[t].key) /\ Goto(t, "get_105")
       ELSE UNCHANGED cache /\ Raise(t, "KeyError")
    /\ UNCHANGED <<timestamps, cache_hits, cache_misses, counted, steps, concFrame>>

\* line 105: del self.timestamps[key], then line 106: return None
Get105(t) ==
    /\ pc[t] = "get_105"
    /\ IF local[t].key \in DOMAIN timestamps
       THEN timestamps' = DropKey(timestamps, local[t].key) /\ Return(t, None)
       ELSE UNCHANGED timestamps /\ Raise(t, "KeyError")
    /\ UNCHANGED <<cache, cache_hits, cache_misses, counted, steps, concFrame>>

\* line 109: self.cache.move_to_end(key)
Get109(t) ==
    /\ pc[t] = "get_109"
    /\ IF local[t].key \in KeysOf(cache)
       THEN cache' = MoveToEnd(cache, local[t].key) /\ Goto(t, "get_110")
       ELSE UNCHANGED cache /\ Raise(t, "KeyError")
    /\ UNCHANGED <<timestamps, cache_hits, cache_misses, counted, steps, concFrame>>

\* line 110: self.metrics.cache_hits += 1, the read
Get110(t) ==
    /\ pc[t] = "get_110"
    /\ pc' = [pc EXCEPT ![t] = "get_110w"]
    /\ local' = [local EXCEPT ![t].tmp = cache_hits]
    /\ UNCHANGED <<sharedVars, counted, steps, concFrame>>

\* line 110: self.metrics.cache_hits += 1, the write
Get110w(t) ==
    /\ pc[t] = "get_110w"
    /\ cache_hits' = local[t].tmp + 1
    /\ counted' = counted + 1
    /\ pc' = [pc EXCEPT ![t] = "get_111"]
    /\ local' = [local EXCEPT ![t].tmp = 0]
    /\ UNCHANGED <<cache, timestamps, cache_misses, steps, concFrame>>

\* line 111: return self.cache[key]
Get111(t) ==
    /\ pc[t] = "get_111"
    /\ IF local[t].key \in KeysOf(cache)
       THEN Return(t, ValueOf(cache, local[t].key))
       ELSE Raise(t, "KeyError")
    /\ UNCHANGED <<sharedVars, counted, steps, concFrame>>

\* line 115: if key in self.cache
Put115(t) ==
    /\ pc[t] = "put_115"
    /\ IF local[t].key \in KeysOf(cache)
       THEN Goto(t, "put_116") ELSE Goto(t, "put_117")
    /\ UNCHANGED <<sharedVars, counted, steps, concFrame>>

\* line 116: del self.cache[key]
Put116(t) ==
    /\ pc[t] = "put_116"
    /\ IF local[t].key \in KeysOf(cache)
       THEN cache' = Remove(cache, local[t].key) /\ Goto(t, "put_124")
       ELSE UNCHANGED cache /\ Raise(t, "KeyError")
    /\ UNCHANGED <<timestamps, cache_hits, cache_misses, counted, steps, concFrame>>

\* line 117: elif len(self.cache) >= self.max_size
Put117(t) ==
    /\ pc[t] = "put_117"
    /\ IF AtCapacity(cache) THEN Goto(t, "put_119") ELSE Goto(t, "put_124")
    /\ UNCHANGED <<sharedVars, counted, steps, concFrame>>

\* line 119: self.cache.popitem(last=False)
Put119(t) ==
    /\ pc[t] = "put_119"
    /\ IF cache # <<>>
       THEN cache' = Tail(cache) /\ Goto(t, "put_120")
       ELSE UNCHANGED cache /\ Raise(t, "KeyError")
    /\ UNCHANGED <<timestamps, cache_hits, cache_misses, counted, steps, concFrame>>

\* line 120: removed_key = next(iter(self.cache))
Put120(t) ==
    /\ pc[t] = "put_120"
    /\ IF cache # <<>>
       THEN /\ pc' = [pc EXCEPT ![t] = "put_121"]
            /\ local' = [local EXCEPT ![t].removed_key = cache[1].key]
       ELSE Raise(t, "StopIteration")
    /\ UNCHANGED <<sharedVars, counted, steps, concFrame>>

\* line 121: if removed_key in self.timestamps
Put121(t) ==
    /\ pc[t] = "put_121"
    /\ IF local[t].removed_key \in DOMAIN timestamps
       THEN Goto(t, "put_122") ELSE Goto(t, "put_124")
    /\ UNCHANGED <<sharedVars, counted, steps, concFrame>>

\* line 122: del self.timestamps[removed_key]
Put122(t) ==
    /\ pc[t] = "put_122"
    /\ IF local[t].removed_key \in DOMAIN timestamps
       THEN timestamps' = DropKey(timestamps, local[t].removed_key) /\ Goto(t, "put_124")
       ELSE UNCHANGED timestamps /\ Raise(t, "KeyError")
    /\ UNCHANGED <<cache, cache_hits, cache_misses, counted, steps, concFrame>>

\* line 124: self.cache[key] = value
Put124(t) ==
    /\ pc[t] = "put_124"
    /\ cache' = SetValue(cache, local[t].key, local[t].value)
    /\ Goto(t, "put_125")
    /\ UNCHANGED <<timestamps, cache_hits, cache_misses, counted, steps, concFrame>>

\* line 125: self.timestamps[key] = datetime.now()
Put125(t) ==
    /\ pc[t] = "put_125"
    /\ timestamps' = SetKey(timestamps, local[t].key, now)
    /\ Return(t, None)
    /\ UNCHANGED <<cache, cache_hits, cache_misses, counted, steps, concFrame>>

\* line 129: self.cache.clear()
Clear129(t) ==
    /\ pc[t] = "clear_129"
    /\ cache' = <<>>
    /\ Goto(t, "clear_130")
    /\ UNCHANGED <<timestamps, cache_hits, cache_misses, counted, steps, concFrame>>

\* line 130: self.timestamps.clear()
Clear130(t) ==
    /\ pc[t] = "clear_130"
    /\ timestamps' = << >>
    /\ Return(t, None)
    /\ UNCHANGED <<cache, cache_hits, cache_misses, counted, steps, concFrame>>

\* The clock advances while the threads run.
TickConc ==
    /\ now <= ttl_seconds
    /\ now' = now + 1
    /\ UNCHANGED <<max_size, ttl_seconds, sharedVars, cacheCall, steps,
                   historyVars, threadVars, dialogueVars, apiVars, poolVars>>

\* One cache, capacity at least 1, whose entries expire after the first tick.
InitConc ==
    /\ \E size \in 1..MaxCap : NewCache(size, 0)
    /\ NewDialogue([d \in DOMAIN faqs |-> 0])
    /\ NewAPIWrapper
    /\ NewConnectionPool(0)

NextConc ==
    \/ \E t \in Threads, key \in Keys : Call(t, "get", key, None)
    \/ \E t \in Threads, key \in Keys, value \in Vals : Call(t, "put", key, value)
    \/ \E t \in Threads : Call(t, "clear", None, None)
    \/ \E t \in Threads :
          \/ Get101(t) \/ Get89(t) \/ Get91(t) \/ Get102(t) \/ Get102w(t)
          \/ Get103(t) \/ Get104(t) \/ Get105(t) \/ Get109(t) \/ Get110(t)
          \/ Get110w(t) \/ Get111(t)
          \/ Put115(t) \/ Put116(t) \/ Put117(t) \/ Put119(t) \/ Put120(t)
          \/ Put121(t) \/ Put122(t) \/ Put124(t) \/ Put125(t)
          \/ Clear129(t) \/ Clear130(t)
    \/ TickConc

SpecConc == InitConc /\ [][NextConc]_vars

(***************************************************************************)
(* C7: concurrent get, put and clear calls on one LRUCache are serialised: *)
(* every outcome is that of some sequential order of the calls, so the     *)
(* capacity bound is never exceeded and no counter update is lost.         *)
(***************************************************************************)
C7_Serialised ==
    /\ Len(cache) <= max_size
    /\ cache_hits + cache_misses = counted

(***************************************************************************)
(* One caller using an OrderTracker and the DialogueSystem that owns it.   *)
(***************************************************************************)
wrapperFrame == <<cacheVars, historyVars, threadVars, similarities, classifier, poolVars>>
dialogueFrame == <<wrapperFrame, apiVars>>

\* DialogueSystem.process_input
ProcessInput(user_input) ==
    /\ turns < MaxTurns
    /\ \E o \in HandleIntent(Classified[user_input].intent, user_input) :
          /\ conversation_history' = conversation_history \o Turn(user_input, o.response)
          /\ orders' = o.orders
          /\ dlgCall' = [NoDialogueCall EXCEPT !.op = "process_input", !.arg = user_input,
                                               !.response = o.response]
    /\ turns' = turns + 1
    /\ UNCHANGED <<user_context, dialogueFrame>>

\* OrderTracker.get_order
GetOrder(order_id) ==
    /\ dlgCall' = [NoDialogueCall EXCEPT
                      !.op = "get_order", !.arg = order_id,
                      !.found = IF GetOrderIndex(order_id) = 0 THEN <<>>
                                ELSE <<orders[GetOrderIndex(order_id)]>>]
    /\ UNCHANGED <<orders, conversation_history, user_context, turns, dialogueFrame>>

\* OrderTracker.cancel_order
CancelOrder(order_id) ==
    /\ orders' = CancelOrderOutcome(order_id).orders
    /\ dlgCall' = [NoDialogueCall EXCEPT !.op = "cancel_order", !.arg = order_id,
                                         !.ok = CancelOrderOutcome(order_id).ret]
    /\ UNCHANGED <<conversation_history, user_context, turns, dialogueFrame>>

\* OrderTracker.list_user_orders
ListUserOrders(customer_id) ==
    /\ dlgCall' = [NoDialogueCall EXCEPT !.op = "list_user_orders",
                                         !.found = ListUserOrdersResult(customer_id)]
    /\ UNCHANGED <<orders, conversation_history, user_context, turns, dialogueFrame>>

\* clear_history that keeps the latest turn
ClearHistoryKeepsLatest ==
    /\ conversation_history' =
          IF Len(conversation_history) < 2 THEN <<>>
          ELSE SubSeq(conversation_history, Len(conversation_history) - 1,
                      Len(conversation_history))
    /\ turns' = IF turns > 0 THEN 1 ELSE 0
    /\ dlgCall' = [NoDialogueCall EXCEPT !.op = "clear_history"]
    /\ UNCHANGED <<orders, user_context, dialogueFrame>>

\* clear_history that resets the context as well
ClearHistoryAndContext ==
    /\ conversation_history' = <<>>
    /\ user_context' = << >>
    /\ turns' = 0
    /\ dlgCall' = [NoDialogueCall EXCEPT !.op = "clear_history"]
    /\ UNCHANGED <<orders, dialogueFrame>>

\* DialogueSystem.clear_history
ClearHistory ==
    /\ conversation_history' = <<>>
    /\ turns' = 0
    /\ dlgCall' = [NoDialogueCall EXCEPT !.op = "clear_history"]
    /\ UNCHANGED <<orders, user_context, dialogueFrame>>

\* DialogueSystem.set_context
SetContext(key, value) ==
    /\ user_context' = SetKey(user_context, key, value)
    /\ dlgCall' = [NoDialogueCall EXCEPT !.op = "set_context"]
    /\ UNCHANGED <<orders, conversation_history, turns, dialogueFrame>>

\* DialogueSystem.get_context and get_conversation_history return the fields
GetContext ==
    /\ dlgCall' = [NoDialogueCall EXCEPT !.op = "get_context"]
    /\ UNCHANGED <<orders, conversation_history, user_context, turns, dialogueFrame>>

GetConversationHistory ==
    /\ dlgCall' = [NoDialogueCall EXCEPT !.op = "get_conversation_history"]
    /\ UNCHANGED <<orders, conversation_history, user_context, turns, dialogueFrame>>

InitDialogue ==
    /\ NewCache(MaxCap, MaxTTL)
    /\ \E sim \in SimVectors : NewDialogue(sim)
    /\ NewAPIWrapper
    /\ NewConnectionPool(0)

NextDialogue ==
    \/ \E user_input \in Inputs : ProcessInput(user_input)
    \/ \E order_id \in LookupIds : GetOrder(order_id)
    \/ \E order_id \in OrderIds : CancelOrder(order_id)
    \/ \E customer_id \in CustomerIds : ListUserOrders(customer_id)
    \/ ClearHistory
    \/ \E key \in ContextKeys, value \in ContextValues : SetContext(key, value)
    \/ GetContext
    \/ GetConversationHistory

SpecDialogue == InitDialogue /\ [][NextDialogue]_vars

(***************************************************************************)
(* C8: an order's status changes only through cancellation and only from   *)
(* pending or processing to cancelled.  No step of get_order,              *)
(* cancel_order, list_user_orders or process_input adds or drops an order, *)
(* changes another field, or leaves cancelled, shipped or delivered; a     *)
(* step that changes an order is a cancel_order call or a process_input    *)
(* call whose text is classified as cancel_item.                           *)
(***************************************************************************)
C8_OnlyCancellationChangesStatus ==
    [][/\ Len(orders') = Len(orders)
       /\ \A i \in DOMAIN orders :
             orders'[i] # orders[i] =>
                /\ orders[i].status \in {"pending", "processing"}
                /\ orders'[i] = [orders[i] EXCEPT !.status = "cancelled"]
                /\ \/ dlgCall'.op = "cancel_order"
                   \/ /\ dlgCall'.op = "process_input"
                      /\ Classified[dlgCall'.arg].intent = "cancel_item"]_vars

\* C8 witness: the pending order was cancelled, and a later request through
\* the dialogue to cancel the shipped order left it shipped.
C8_Witness ==
    /\ orders[1].status = "cancelled"
    /\ orders[3].status = "shipped"
    /\ dlgCall.op = "process_input"
    /\ dlgCall.arg = TxtCancel3

(***************************************************************************)
(* C9: cancel_order(id) returns true exactly when an order with that id    *)
(* (compared without regard to case) exists with status pending or         *)
(* processing before the call, and then that order, and no other, becomes  *)
(* cancelled; when it returns false every order record is unchanged.       *)
(***************************************************************************)
C9_CancelOrderResult ==
    [][dlgCall'.op = "cancel_order" =>
          LET eligible == {i \in DOMAIN orders :
                              /\ UpperId[orders[i].order_id] = UpperId[dlgCall'.arg]
                              /\ orders[i].status \in {"pending", "processing"}}
          IN  /\ dlgCall'.ok <=> eligible # {}
              /\ dlgCall'.ok =>
                    \E i \in eligible : orders' = [orders EXCEPT ![i].status = "cancelled"]
              /\ ~dlgCall'.ok => orders' = orders]_vars

\* C9 witness: cancel_order("ord2") returned true and the processing order
\* ORD2 is cancelled.
C9_Witness ==
    /\ dlgCall.op = "cancel_order"
    /\ dlgCall.arg = IdOrd2
    /\ dlgCall.ok
    /\ orders[2].status = "cancelled"

(***************************************************************************)
(* C10: after n process_input calls since the last clear the history has   *)
(* 2n entries; the entries of each call are a user entry with the input    *)
(* text followed by an assistant entry with the intent and confidence that *)
(* classify gives for that text, and the assistant entry of the latest     *)
(* call holds the response the call returned.                              *)
(***************************************************************************)
C10_TwoEntriesPerCall ==
    /\ Len(conversation_history) = 2 * turns
    /\ \A k \in 1..turns :
          LET user_entry == conversation_history[2 * k - 1]
              assistant_entry == conversation_history[2 * k]
          IN  /\ user_entry.type = "user"
              /\ assistant_entry.type = "assistant"
              /\ user_entry.user \in Inputs
              /\ assistant_entry.intent = Classified[user_entry.user].intent
              /\ assistant_entry.confidence = Classified[user_entry.user].confidence
    /\ dlgCall.op = "process_input" =>
          /\ turns >= 1
          /\ conversation_history[2 * turns - 1].user = dlgCall.arg
          /\ conversation_history[2 * turns].assistant = dlgCall.response

\* C10 witness: two process_input calls since the last clear, four entries.
C10_Witness ==
    /\ turns = 2
    /\ Len(conversation_history) = 4
    /\ dlgCall.op = "process_input"
    /\ conversation_history[3].user = TxtCancel1

(***************************************************************************)
(* C11: the conversation history is append-only between resets.  A step of *)
(* any call other than clear_history keeps every entry already recorded,   *)
(* in place and unchanged; set_context and get_context leave the history   *)
(* as it is; a clear_history step leaves the history empty, also when it   *)
(* was empty before.                                                       *)
(***************************************************************************)
C11_HistoryAppendOnly ==
    [][IF dlgCall'.op = "clear_history"
       THEN Len(conversation_history') = 0
       ELSE /\ Len(conversation_history') >= Len(conversation_history)
            /\ SubSeq(conversation_history', 1, Len(conversation_history))
                  = conversation_history
            /\ dlgCall'.op \in {"set_context", "get_context"} =>
                  conversation_history' = conversation_history]_vars

\* C11 witness: two turns are recorded and a set_context call after them has
\* stored a value, the four entries still in place.
C11_Witness ==
    /\ dlgCall.op = "set_context"
    /\ DOMAIN user_context # {}
    /\ Len(conversation_history) = 4
    /\ conversation_history[1].user = TxtHi
    /\ conversation_history[3].user = TxtTrack1

(***************************************************************************)
(* Callers of one ChatbotAPIWrapper, each with its own user and session    *)
(* id.  The wrapper holds one DialogueSystem for all of them.              *)
(***************************************************************************)
ApiMessages == {TxtHi, TxtCancel1, TxtPolicy}
ApiOrderIds == {IdORD1, IdORD3, IdORD9}
FaqQueries == {TxtPolicy, TxtRefund}

\* f"Track my order {order_id}" and f"Cancel order {order_id}"
TrackMessage(order_id) == <<"T", "r", "a", "c", "k", " ", "m", "y", " ", "o", "r", "d", "e", "r", " ">> \o order_id
CancelMessage(order_id) == <<"C", "a", "n", "c", "e", "l", " ", "o", "r", "d", "e", "r", " ">> \o order_id

\* process_message, entered as `op`: process_input never raises, so the
\* except branch is not taken
ProcessMessageAs(op, user_id, message, session_id) ==
    /\ turns < MaxTurns
    /\ \E o \in HandleIntent(Classified[message].intent, message) :
          /\ conversation_history' = conversation_history \o Turn(message, o.response)
          /\ orders' = o.orders
          /\ dlgCall' = [NoDialogueCall EXCEPT !.op = "process_input", !.arg = message,
                                               !.response = o.response]
          /\ apiCall' = [NoApiCall EXCEPT
                            !.op = op, !.success = TRUE, !.user_id = user_id,
                            !.response = o.response,
                            !.session_id = IF session_id # NoSession THEN session_id
                                           ELSE GenerateSessionId(user_id)]
    /\ turns' = turns + 1
    /\ historyOwners' = historyOwners \cup {apiCall'.session_id}
    /\ UNCHANGED <<user_context, sessions, wrapperFrame>>

\* ChatbotAPIWrapper.process_message
ProcessMessage(user_id, message, session_id) ==
    ProcessMessageAs("process_message", user_id, message, session_id)

\* ChatbotAPIWrapper.track_order
TrackOrder(user_id, order_id) ==
    ProcessMessageAs("track_order", user_id, TrackMessage(order_id), NoSession)

\* ChatbotAPIWrapper.cancel_order
CancelOrderRequest(user_id, order_id) ==
    ProcessMessageAs("cancel_order", user_id, CancelMessage(order_id), NoSession)

\* ChatbotAPIWrapper.get_faq
GetFaq(user_id, query) ==
    ProcessMessageAs("get_faq", user_id, query, NoSession)

\* ChatbotAPIWrapper.reset_session: DialogueSystem has no reset_conversation,
\* the AttributeError is caught before self.sessions is touched
ResetSession(session_id) ==
    /\ apiCall' = [NoApiCall EXCEPT
                      !.op = "reset_session", !.success = FALSE,
                      !.session_id = session_id,
                      !.error = "'DialogueSystem' object has no attribute 'reset_conversation'"]
    /\ UNCHANGED <<dialogueVars, sessions, historyOwners, wrapperFrame>>

\* ChatbotAPIWrapper.health_check
HealthCheck ==
    /\ apiCall' = [NoApiCall EXCEPT !.op = "health_check", !.success = TRUE]
    /\ UNCHANGED <<dialogueVars, sessions, historyOwners, wrapperFrame>>

InitAPI ==
    /\ NewCache(MaxCap, MaxTTL)
    /\ \E sim \in SimVectors : NewDialogue(sim)
    /\ NewAPIWrapper
    /\ NewConnectionPool(0)

NextAPI ==
    \/ \E user_id \in UserIds, message \in ApiMessages,
          session_id \in SessionIds \cup {NoSession} :
          ProcessMessage(user_id, message, session_id)
    \/ \E user_id \in UserIds, order_id \in ApiOrderIds : TrackOrder(user_id, order_id)
    \/ \E user_id \in UserIds, order_id \in ApiOrderIds : CancelOrderRequest(user_id, order_id)
    \/ \E user_id \in UserIds, query \in FaqQueries : GetFaq(user_id, query)
    \/ \E session_id \in SessionIds : ResetSession(session_id)
    \/ HealthCheck

SpecAPI == InitAPI /\ [][NextAPI]_vars

(***************************************************************************)
(* C12: session state is isolated per session.  The conversation history a *)
(* session is served holds entries of that session's messages only: no     *)
(* two session ids have entries in the same history.                       *)
(***************************************************************************)
C12_SessionIsolated == Cardinality(historyOwners) <= 1

(***************************************************************************)
(* Threads calling process_input on one DialogueSystem, one action per     *)
(* access to the shared history and order store.  A thread's reads of the  *)
(* immutable indices (classify, _extract_order_id, generate, retrieve) are *)
(* taken together with its next shared access.  Under the interpreter lock *)
(* list.append and a dict item assignment are single steps.                *)
(***************************************************************************)
ConcInputs == {TxtHi, TxtTrack1, TxtCancel1, TxtPolicy}

\* an append that writes over the last slot it saw
ListAppendLosing(list, entry) ==
    IF list = <<>> THEN <<entry>> ELSE [list EXCEPT ![Len(list)] = entry]

\* list.append
ListAppend(list, entry) == Append(list, entry)

\* a thread's frame inside process_input
InProcessInput(user_input) ==
    [op |-> "process_input", user_input |-> user_input, intent |-> "",
     confidence |-> 0, response |-> Text(""), exc |-> "none"]

dialogueConcFrame == <<max_size, ttl_seconds, cache, timestamps, cache_hits,
                       cache_misses, now, cacheCall, historyVars, counted,
                       similarities, user_context, dlgCall, classifier, apiVars, poolVars>>

\* a thread enters process_input
CallProcessInput(t, user_input) ==
    /\ pc[t] = "idle"
    /\ steps < MaxDialogueCalls
    /\ steps' = steps + 1
    /\ pc' = [pc EXCEPT ![t] = "process_input_23"]
    /\ local' = [local EXCEPT ![t] = InProcessInput(user_input)]
    /\ UNCHANGED <<conversation_history, orders, turns, dialogueConcFrame>>

\* self.conversation_history.append({... 'type': 'user'})
ProcessInput23(t) ==
    /\ pc[t] = "process_input_23"
    /\ conversation_history' = ListAppend(conversation_history, UserEntry(local[t].user_input))
    /\ pc' = [pc EXCEPT ![t] = "process_input_28"]
    /\ UNCHANGED <<local, orders, turns, steps, dialogueConcFrame>>

\* intent, confidence = classify(user_input), and the branch of _handle_intent
ProcessInput28(t) ==
    /\ pc[t] = "process_input_28"
    /\ LET c == Classified[local[t].user_input]
       IN  /\ local' = [local EXCEPT ![t].intent = c.intent, ![t].confidence = c.confidence]
           /\ pc' = [pc EXCEPT ![t] = CASE c.intent = "track_order" -> "handle_track_order_57"
                                        [] c.intent = "cancel_item" -> "handle_cancel_item_66"
                                        [] c.intent = "greeting" -> "handle_intent_46"
                                        [] OTHER -> "handle_intent_48"]
    /\ UNCHANGED <<conversation_history, orders, turns, steps, dialogueConcFrame>>

\* _handle_track_order: get_order and the reply built from the order found
HandleTrackOrder57(t) ==
    /\ pc[t] = "handle_track_order_57"
    /\ local' = [local EXCEPT ![t].response = HandleTrackOrder(local[t].user_input).response]
    /\ pc' = [pc EXCEPT ![t] = "process_input_30"]
    /\ UNCHANGED <<conversation_history, orders, turns, steps, dialogueConcFrame>>

\* _handle_cancel_item: get_order and the test of the order's status
HandleCancelItem66(t) ==
    /\ pc[t] = "handle_cancel_item_66"
    /\ LET order_id == ExtractedOrderId[local[t].user_input]
           found == IF order_id # <<>> THEN GetOrderIndex(order_id) ELSE 0
       IN  IF found # 0 /\ orders[found].status \in {"pending", "processing"}
           THEN /\ pc' = [pc EXCEPT ![t] = "handle_cancel_item_68"]
                /\ UNCHANGED local
           ELSE /\ pc' = [pc EXCEPT ![t] = "process_input_30"]
                /\ local' = [local EXCEPT ![t].response = UnableToCancel]
    /\ UNCHANGED <<conversation_history, orders, turns, steps, dialogueConcFrame>>

\* self.order_tracker.cancel_order(order_id), its result dropped, and the
\* confirmation
HandleCancelItem68(t) ==
    /\ pc[t] = "handle_cancel_item_68"
    /\ LET order_id == ExtractedOrderId[local[t].user_input]
       IN  /\ orders' = CancelOrderOutcome(order_id).orders
           /\ local' = [local EXCEPT ![t].response = CancelledReply(order_id)]
    /\ pc' = [pc EXCEPT ![t] = "process_input_30"]
    /\ UNCHANGED <<conversation_history, turns, steps, dialogueConcFrame>>

\* return self.response_generator.generate(intent)
HandleIntent46(t) ==
    /\ pc[t] = "handle_intent_46"
    /\ \E r \in Generate(local[t].intent) : local' = [local EXCEPT ![t].response = r]
    /\ pc' = [pc EXCEPT ![t] = "process_input_30"]
    /\ UNCHANGED <<conversation_history, orders, turns, steps, dialogueConcFrame>>

\* qa_results = retrieve(user_input, top_k=1) and the reply taken from it
HandleIntent48(t) ==
    /\ pc[t] = "handle_intent_48"
    /\ \E o \in HandleIntent(local[t].intent, local[t].user_input) :
          local' = [local EXCEPT ![t].response = o.response]
    /\ pc' = [pc EXCEPT ![t] = "process_input_30"]
    /\ UNCHANGED <<conversation_history, orders, turns, steps, dialogueConcFrame>>

\* self.conversation_history.append({... 'type': 'assistant'}); return response
ProcessInput30(t) ==
    /\ pc[t] = "process_input_30"
    /\ conversation_history' =
          ListAppend(conversation_history,
                     AssistantEntry(local[t].response, local[t].intent, local[t].confidence))
    /\ turns' = turns + 1
    /\ pc' = [pc EXCEPT ![t] = "idle"]
    /\ UNCHANGED <<local, orders, steps, dialogueConcFrame>>

InitDialogueConc ==
    /\ NewCache(MaxCap, MaxTTL)
    /\ \E sim \in SimVectors : NewDialogue(sim)
    /\ NewAPIWrapper
    /\ NewConnectionPool(0)

NextDialogueConc ==
    \/ \E t \in Threads, user_input \in ConcInputs : CallProcessInput(t, user_input)
    \/ \E t \in Threads : ProcessInput23(t)
    \/ \E t \in Threads : ProcessInput28(t)
    \/ \E t \in Threads : HandleTrackOrder57(t)
    \/ \E t \in Threads : HandleCancelItem66(t)
    \/ \E t \in Threads : HandleCancelItem68(t)
    \/ \E t \in Threads : HandleIntent46(t)
    \/ \E t \in Threads : HandleIntent48(t)
    \/ \E t \in Threads : ProcessInput30(t)

SpecDialogueConc == InitDialogueConc /\ [][NextDialogueConc]_vars

(***************************************************************************)
(* C13: when threads call process_input concurrently on one                *)
(* DialogueSystem, no call raises, every entry appended stays in the       *)
(* history, and once the N calls started have all returned there are N     *)
(* responses and exactly 2N history entries.                               *)
(***************************************************************************)
C13_ConcurrentCallsAllRecorded ==
    /\ \A t \in Threads : local[t].exc = "none"
    /\ Len(conversation_history)
          = 2 * turns + Cardinality({t \in Threads :
                                       pc[t] \notin {"idle", "process_input_23"}})
    /\ (\A t \in Threads : pc[t] = "idle") =>
          /\ turns = steps
          /\ Len(conversation_history) = 2 * steps

\* C13 witness: two calls made by different threads overlapped (the second
\* user entry precedes the first assistant entry) and both have returned.
C13_Witness ==
    /\ \A t \in Threads : pc[t] = "idle"
    /\ steps = 2
    /\ local[1].op = "process_input"
    /\ local[2].op = "process_input"
    /\ Len(conversation_history) = 4
    /\ conversation_history[1].type = "user"
    /\ conversation_history[2].type = "user"

(***************************************************************************)
(* One caller sending texts of every kind to one DialogueSystem: texts of  *)
(* each intent, with and without an order id, naming orders of each        *)
(* status, stored in another letter case or not stored, the empty text and *)
(* a text that matches nothing.                                            *)
(***************************************************************************)
InitTurns ==
    /\ NewCache(MaxCap, MaxTTL)
    /\ \E sim \in SimVectors : NewDialogue(sim)
    /\ NewAPIWrapper
    /\ NewConnectionPool(0)

NextTurns ==
    \/ \E user_input \in Texts : ProcessInput(user_input)
    \/ ClearHistory

SpecTurns == InitTurns /\ [][NextTurns]_vars

(***************************************************************************)
(* C14: in every reachable state and for every input text, process_input   *)
(* completes (it has an outcome) and every response it can return is a     *)
(* non-empty string.                                                       *)
(***************************************************************************)
C14_AlwaysRespondsNonEmpty ==
    /\ \A t \in Texts :
          /\ HandleIntent(Classified[t].intent, t) # {}
          /\ \A o \in HandleIntent(Classified[t].intent, t) : o.response.text # ""
    /\ dlgCall.op = "process_input" => dlgCall.response.text # ""

\* C14 witness: process_input("") has returned a response, after a call
\* that found no FAQ hit.
C14_Witness ==
    /\ dlgCall.op = "process_input"
    /\ dlgCall.arg = TxtEmpty
    /\ dlgCall.response.text # ""
    /\ Len(conversation_history) = 4
    /\ conversation_history[1].user = TxtPolicy
    /\ conversation_history[2].assistant = DidNotUnderstand

(***************************************************************************)
(* C15: when the input is classified as track_order, no order record       *)
(* changes; if an order id is extracted and an order with that id is       *)
(* stored, the response carries that id, the order's current status and    *)
(* its delivery date; otherwise (id not stored, or no id extracted) the    *)
(* response is the order-not-found text, which asks for the order id.      *)
(***************************************************************************)
C15_TrackOrderReply ==
    [][(dlgCall'.op = "process_input" /\ Classified[dlgCall'.arg].intent = "track_order") =>
          LET order_id == ExtractedOrderId[dlgCall'.arg]
              stored == {i \in DOMAIN orders :
                            UpperId[orders[i].order_id] = UpperId[order_id]}
          IN  /\ orders' = orders
              /\ IF order_id # <<>> /\ stored # {}
                 THEN \E i \in stored :
                         /\ dlgCall'.response.kind = "order_status"
                         /\ dlgCall'.response.order_id = order_id
                         /\ dlgCall'.response.status = orders[i].status
                         /\ dlgCall'.response.delivery_date = orders[i].delivery_date
                         /\ dlgCall'.response.delivery_date # ""
                 ELSE dlgCall'.response = OrderNotFound]_vars

\* C15 witness: tracking ORD1 after it was cancelled reports the current
\* status and the delivery date.
C15_Witness ==
    /\ dlgCall.op = "process_input"
    /\ dlgCall.arg = TxtTrack1
    /\ dlgCall.response.kind = "order_status"
    /\ dlgCall.response.order_id = IdORD1
    /\ dlgCall.response.status = "cancelled"
    /\ dlgCall.response.delivery_date = "2024-01-10"

(***************************************************************************)
(* C16: when the input is classified as cancel_item, the response is the   *)
(* cancellation confirmation exactly when an order id was extracted and an *)
(* order with that id had status pending or processing before the call,    *)
(* and then that order is cancelled; in every other case the response is   *)
(* the unable-to-cancel text and no order record changes.                  *)
(***************************************************************************)
C16_CancelItemReply ==
    [][(dlgCall'.op = "process_input" /\ Classified[dlgCall'.arg].intent = "cancel_item") =>
          LET order_id == ExtractedOrderId[dlgCall'.arg]
              eligible == {i \in DOMAIN orders :
                              /\ UpperId[orders[i].order_id] = UpperId[order_id]
                              /\ orders[i].status \in {"pending", "processing"}}
          IN  IF order_id # <<>> /\ eligible # {}
              THEN /\ dlgCall'.response = CancelledReply(order_id)
                   /\ \E i \in eligible :
                         orders' = [orders EXCEPT ![i].status = "cancelled"]
              ELSE /\ dlgCall'.response = UnableToCancel
                   /\ orders' = orders]_vars

\* C16 witness: "cancel order id: ord2" was confirmed and the processing
\* order ORD2 is cancelled, after the shipped order was refused.
C16_Witness ==
    /\ dlgCall.op = "process_input"
    /\ dlgCall.arg = TxtCancel2
    /\ dlgCall.response.kind = "cancelled"
    /\ orders[2].status = "cancelled"
    /\ Len(conversation_history) = 4
    /\ conversation_history[1].user = TxtCancel3
    /\ conversation_history[2].assistant = UnableToCancel
    /\ orders[3].status = "shipped"

(***************************************************************************)
(* C17: for every classified intent other than track_order and cancel_item *)
(* that has a registered response template set, process_input returns one  *)
(* of that intent's registered templates.                                  *)
(***************************************************************************)
C17_TemplateForRegisteredIntent ==
    (/\ dlgCall.op = "process_input"
     /\ Classified[dlgCall.arg].intent \notin {"track_order", "cancel_item"}
     /\ \E i \in DOMAIN intents : /\ intents[i].tag = Classified[dlgCall.arg].intent
                                   /\ intents[i].responses # <<>>)
    => \E i \in DOMAIN intents :
          /\ intents[i].tag = Classified[dlgCall.arg].intent
          /\ \E r \in DOMAIN intents[i].responses :
                dlgCall.response = Text(intents[i].responses[r])

(***************************************************************************)
(* C18: for an intent routed to the retriever (any intent other than       *)
(* track_order, cancel_item and greeting), process_input returns what      *)
(* retrieve(text, top_k = 1) gives: the answer text of the one hit when    *)
(* there is one, the didn't-understand text when there is none.            *)
(***************************************************************************)
C18_RetrieverFallback ==
    (/\ dlgCall.op = "process_input"
     /\ Classified[dlgCall.arg].intent \notin {"track_order", "cancel_item", "greeting"})
    => \E qa_results \in Retrieve(dlgCall.arg, 1) :
          /\ Len(qa_results) <= 1
          /\ dlgCall.response = IF qa_results # <<>> THEN Text(qa_results[1].answer)
                                 ELSE DidNotUnderstand

\* C18 witness: the return-policy question was answered with the answer of
\* the one FAQ whose similarity is above the threshold.
C18_Witness ==
    /\ dlgCall.op = "process_input"
    /\ dlgCall.arg = TxtPolicy
    /\ similarities[TxtPolicy] = <<10, 50>>
    /\ dlgCall.response = Text(faqs[2].answer)

\* the branch of _handle_intent a response comes from
BranchOf(response) ==
    IF response.kind = "order_status" \/ response = OrderNotFound THEN "track_order"
    ELSE IF response.kind = "cancelled" \/ response = UnableToCancel THEN "cancel_item"
    ELSE IF \E i \in DOMAIN intents : \E r \in DOMAIN intents[i].responses :
                response = Text(intents[i].responses[r])
    THEN "template"
    ELSE "retriever"

Alphabet == {"h", "i", "H", "x", " "}
ShortTexts == UNION {[1..n -> Alphabet] : n \in 0..MaxTextLen}

\* IntentClassifier.classify; it keeps nothing between calls, so one call
\* per run reaches every outcome
ClassifyText(user_input) ==
    /\ classifier.result = NoResult
    /\ classifier' = [classifier EXCEPT
                         !.user_input = user_input,
                         !.result = ClassifyOf(Definitions[classifier.loaded], user_input)]
    /\ UNCHANGED <<cacheVars, historyVars, threadVars, apiVars, poolVars, orders, similarities,
                   conversation_history, user_context, dlgCall, turns>>

InitClassify ==
    /\ NewCache(MaxCap, MaxTTL)
    /\ orders = SeedOrders
    /\ similarities = [t \in RetrievedTexts |-> [d \in DOMAIN faqs |-> 0]]
    /\ conversation_history = <<>>
    /\ user_context = << >>
    /\ dlgCall = NoDialogueCall
    /\ turns = 0
    /\ \E loaded \in {"none", "phrases", "letters", "many"} : NewClassifier(loaded)
    /\ NewAPIWrapper
    /\ NewConnectionPool(0)

NextClassify == \E user_input \in ShortTexts : ClassifyText(user_input)

SpecClassify == InitClassify /\ [][NextClassify]_vars

\* some pattern phrase, or some word of a pattern phrase, occurs in the text
SomePatternOccurs(definitions, user_input) ==
    \E i \in DOMAIN definitions : \E p \in DOMAIN definitions[i].patterns :
        LET phrase == Lower(definitions[i].patterns[p])
            words == Split(phrase)
        IN  \/ Contains(Lower(user_input), phrase)
            \/ \E w \in DOMAIN words : Contains(Lower(user_input), words[w])

(***************************************************************************)
(* C20: for every input in which no pattern phrase and no pattern word of  *)
(* any intent occurs, and whenever the definition set is empty, classify   *)
(* returns the intent greeting with confidence 0.3 (6 twentieths).         *)
(***************************************************************************)
C20_FallbackOnNoMatch ==
    (/\ classifier.result # NoResult
     /\ ~SomePatternOccurs(Definitions[classifier.loaded], classifier.user_input))
    => classifier.result = [intent |-> "greeting", confidence |-> 6]

\* C20 witness: with the phrase definitions loaded, "i h" (neither "hi" nor
\* "x" occurs in it) was classified as the fallback.
C20_Witness ==
    /\ classifier.loaded = "phrases"
    /\ classifier.user_input = <<"i", " ", "h">>
    /\ classifier.result = [intent |-> "greeting", confidence |-> 6]

(***************************************************************************)
(* The score the specification gives an intent for an input, in halves:    *)
(* per pattern, 2.0 when the lower-cased phrase is a substring of the      *)
(* lower-cased input, else 0.5 for each word of the phrase that occurs in  *)
(* the lower-cased input.                                                  *)
(***************************************************************************)
SpecifiedScore(intent, user_input) ==
    SumSeq([p \in DOMAIN intent.patterns |->
               LET phrase == Lower(intent.patterns[p])
                   words == Split(phrase)
               IN  IF Contains(Lower(user_input), phrase) THEN 4
                   ELSE Cardinality({w \in DOMAIN words :
                                        Contains(Lower(user_input), words[w])})])

\* the largest specified score over the loaded definitions, 0 when there are none
SpecifiedBest(definitions, user_input) ==
    IF definitions = <<>> THEN 0
    ELSE LET scores == {SpecifiedScore(definitions[i], user_input) : i \in DOMAIN definitions}
         IN  CHOOSE m \in scores : \A n \in scores : n <= m

(***************************************************************************)
(* C21: for every input with at least one match, classify returns an       *)
(* intent whose score is the maximum over all intents, the score of an     *)
(* intent being the sum over its patterns of 2.0 for a phrase that is a    *)
(* substring of the lower-cased input and otherwise 0.5 per pattern word   *)
(* that occurs in it.                                                      *)
(***************************************************************************)
C21_ReturnsMaximumScore ==
    LET definitions == Definitions[classifier.loaded]
    IN  (/\ classifier.result # NoResult
         /\ SomePatternOccurs(definitions, classifier.user_input))
        => \E i \in DOMAIN definitions :
              /\ definitions[i].tag = classifier.result.intent
              /\ SpecifiedScore(definitions[i], classifier.user_input)
                     = SpecifiedBest(definitions, classifier.user_input)

\* C21 witness: with the phrase definitions loaded, "hi" holds one word of
\* track_order's phrase "hi x" (0.5) and the whole phrase "Hi" of goodbye
\* (2.0); goodbye was returned.
C21_Witness ==
    /\ classifier.loaded = "phrases"
    /\ classifier.user_input = <<"h", "i">>
    /\ classifier.result.intent = "goodbye"
    /\ SpecifiedScore(PhraseDefinitions[1], classifier.user_input) = 1
    /\ SpecifiedScore(PhraseDefinitions[2], classifier.user_input) = 4

(***************************************************************************)
(* C22: when two or more intents share the maximum non-zero score,         *)
(* classify returns the one that appears earliest in the definitions.      *)
(***************************************************************************)
C22_TieGoesToEarliest ==
    LET definitions == Definitions[classifier.loaded]
        best == SpecifiedBest(definitions, classifier.user_input)
        holders == {i \in DOMAIN definitions :
                       SpecifiedScore(definitions[i], classifier.user_input) = best}
    IN  (/\ classifier.result # NoResult
         /\ best > 0
         /\ Cardinality(holders) >= 2)
        => classifier.result.intent
               = definitions[CHOOSE i \in holders : \A j \in holders : i <= j].tag

\* C22 witness: with the one-letter definitions loaded, "hi" holds the phrase
\* of track_order and the phrase of cancel_item (2.0 each); track_order, the
\* earlier one, was returned.
C22_Witness ==
    /\ classifier.loaded = "letters"
    /\ classifier.user_input = <<"h", "i">>
    /\ SpecifiedScore(LetterDefinitions[1], classifier.user_input) = 4
    /\ SpecifiedScore(LetterDefinitions[2], classifier.user_input) = 4
    /\ classifier.result.intent = "track_order"

(***************************************************************************)
(* C23: the confidence classify returns lies in [0, 1] (0..20 twentieths); *)
(* when some intent matched it is min(score / 10, 1) for the winning score *)
(* and is greater than 0.                                                  *)
(***************************************************************************)
C23_ConfidenceInRange ==
    LET definitions == Definitions[classifier.loaded]
        best == SpecifiedBest(definitions, classifier.user_input)
    IN  (classifier.result # NoResult)
        => /\ classifier.result.confidence >= 0
           /\ classifier.result.confidence <= 20
           /\ SomePatternOccurs(definitions, classifier.user_input)
              => /\ classifier.result.confidence = (IF best < 20 THEN best ELSE 20)
                 /\ classifier.result.confidence > 0

\* C23 witness: with the six-phrase definitions loaded, every phrase of
\* track_order occurs in "hi" (score 12.0, 24 halves) and the confidence
\* returned is 1.0.
C23_Witness ==
    /\ classifier.loaded = "many"
    /\ classifier.user_input = <<"h", "i">>
    /\ SpecifiedBest(ManyDefinitions, classifier.user_input) = 24
    /\ classifier.result = [intent |-> "track_order", confidence |-> 20]

(***************************************************************************)
(* IRBasedQA.retrieve on its own: an index of the FAQ questions, queries   *)
(* whose similarities to them are drawn from a few values around the       *)
(* threshold, and calls with every top_k up to MaxTopK.                    *)
(***************************************************************************)
MaxTopK == 3

\* a query that is no text (None): vectorizer.transform raises on it
NoQuery == <<"None">>
RetrieveQueries == {TxtEmpty, TxtPolicy, TxtRefund}

\* cosine similarities in hundredths: none, at the threshold, just above it, high
RetrieveVectors == [DOMAIN faqs -> {0, 10, 11, 50}]

\* retrieve with the try/except of lines 22 and 31 dropped
RetrieveOutcomeUncaught(query, top_k) ==
    IF query = NoQuery
    THEN {[results |-> <<>>, exc |-> "AttributeError"]}
    ELSE {[results |-> r, exc |-> "none"] : r \in Retrieve(query, top_k)}

\* what a call of retrieve can return or raise: whatever is raised inside
\* the try is caught by the bare except and [] is returned
RetrieveOutcome(query, top_k) ==
    IF query = NoQuery
    THEN {[results |-> <<>>, exc |-> "none"]}
    ELSE {[results |-> r, exc |-> "none"] : r \in Retrieve(query, top_k)}

RetrieveCall(query, top_k) ==
    /\ \E o \in RetrieveOutcome(query, top_k) :
          dlgCall' = [op |-> "retrieve", arg |-> query, top_k |-> top_k,
                      ok |-> o.exc = "none", found |-> o.results, exc |-> o.exc,
                      response |-> Text("")]
    /\ UNCHANGED <<cacheVars, historyVars, threadVars, apiVars, poolVars, orders, similarities,
                   conversation_history, user_context, turns, classifier>>

\* the query with no term has similarity 0 to every question
InitRetrieve ==
    /\ NewCache(MaxCap, MaxTTL)
    /\ orders = SeedOrders
    /\ \E sim \in [RetrieveQueries -> RetrieveVectors] :
          /\ sim[TxtEmpty] = [d \in DOMAIN faqs |-> 0]
          /\ sim[TxtRefund] = [d \in DOMAIN faqs |-> 0]
          /\ similarities = sim
    /\ conversation_history = <<>>
    /\ user_context = << >>
    /\ dlgCall = NoDialogueCall
    /\ turns = 0
    /\ NewClassifier("intents")
    /\ NewAPIWrapper
    /\ NewConnectionPool(0)

NextRetrieve ==
    \E query \in RetrieveQueries \cup {NoQuery}, top_k \in 0..MaxTopK :
        RetrieveCall(query, top_k)

SpecRetrieve == InitRetrieve /\ [][NextRetrieve]_vars

\* the position in the corpus of a returned hit
DocumentOf(result) == CHOOSE d \in DOMAIN faqs : faqs[d].question = result.question

(***************************************************************************)
(* C24: for every query and every top_k >= 0, retrieve returns at most     *)
(* top_k hits, each a document of the corpus with its similarity, every    *)
(* similarity greater than 0.1, in non-increasing order of similarity, and *)
(* unless top_k hits were returned no document left out has a similarity   *)
(* greater than a returned one.                                            *)
(***************************************************************************)
C24_TopHitsAboveThreshold ==
    (dlgCall.op = "retrieve" /\ dlgCall.arg # NoQuery)
    => LET sim == similarities[dlgCall.arg]
           hits == dlgCall.found
           returned == {DocumentOf(hits[i]) : i \in DOMAIN hits}
       IN  /\ Len(hits) <= dlgCall.top_k
           /\ \A i \in DOMAIN hits :
                 /\ \E d \in DOMAIN faqs :
                       hits[i] = [question |-> faqs[d].question,
                                  answer |-> faqs[d].answer, score |-> sim[d]]
                 /\ hits[i].score > 10
           /\ \A i, j \in DOMAIN hits : i < j => hits[i].score >= hits[j].score
           /\ Cardinality(returned) = Len(hits)
           /\ Len(hits) < dlgCall.top_k
              => \A d \in (DOMAIN faqs) \ returned, i \in DOMAIN hits :
                    sim[d] <= hits[i].score

\* C24 witness: of two documents with similarities 0.10 and 0.50 a call with
\* top_k = 2 returned the second one only.
C24_Witness ==
    /\ dlgCall.op = "retrieve"
    /\ dlgCall.arg = TxtPolicy
    /\ similarities[TxtPolicy] = <<10, 50>>
    /\ dlgCall.top_k = 2
    /\ Len(dlgCall.found) = 1
    /\ dlgCall.found[1].question = faqs[2].question

(***************************************************************************)
(* C25: documents with equal similarity to the query are ranked in corpus  *)
(* order, the earlier one first; with top_k = 1 and a tie for the best     *)
(* similarity the earlier document is the one returned.                    *)
(***************************************************************************)
C25_TiesKeepCorpusOrder ==
    (dlgCall.op = "retrieve" /\ dlgCall.arg # NoQuery)
    => LET sim == similarities[dlgCall.arg]
           hits == dlgCall.found
       IN  /\ \A i, j \in DOMAIN hits :
                 (i < j /\ hits[i].score = hits[j].score)
                 => DocumentOf(hits[i]) < DocumentOf(hits[j])
           /\ (dlgCall.top_k = 1 /\ Len(hits) = 1)
              => \A d \in DOMAIN faqs :
                    sim[d] = hits[1].score => DocumentOf(hits[1]) <= d

(***************************************************************************)
(* C26: retrieve never raises; an empty query, a query whose vector is all *)
(* zero and a call that fails inside return an empty result; no call       *)
(* changes the index.                                                      *)
(***************************************************************************)
C26_RetrieveNeverRaises ==
    [][(dlgCall'.op = "retrieve")
       => /\ dlgCall'.exc = "none"
          /\ (\/ dlgCall'.arg \in {NoQuery, TxtEmpty}
              \/ similarities[dlgCall'.arg] = [d \in DOMAIN faqs |-> 0])
             => dlgCall'.found = <<>>
          /\ similarities' = similarities]_vars

\* C26 witness: a call with a query that is no text returned the empty list.
C26_Witness ==
    /\ dlgCall.op = "retrieve"
    /\ dlgCall.arg = NoQuery
    /\ dlgCall.exc = "none"
    /\ dlgCall.found = <<>>

(***************************************************************************)
(* DialogueSystem._extract_order_id on its own: the texts of the           *)
(* specification's examples, and "Order" followed by every text of up to   *)
(* MaxSuffixLen characters of "id", a colon, a space, a digit and a hyphen,*)
(* alone and after an "order" that no id follows.                          *)
(***************************************************************************)
MaxSuffixLen == 3

TxtTrackORD001 == <<"T", "r", "a", "c", "k", " ", "m", "y", " ", "o", "r", "d", "e", "r", " ", "O", "R", "D", "0", "0", "1">>
TxtOrderIdAbc123 == <<"o", "r", "d", "e", "r", " ", "i", "d", ":", " ", "a", "b", "c", "1", "2", "3">>
TxtHello == <<"h", "e", "l", "l", "o">>
ExampleTexts == {TxtTrackORD001, TxtOrderIdAbc123, TxtHello}

SuffixAlphabet == {"i", "d", ":", " ", "7", "-"}
Suffixes == UNION {[1..n -> SuffixAlphabet] : n \in 0..MaxSuffixLen}
ExtractPrefixes == {<<>>, <<"o", "r", "d", "e", "r", "-">>}
ExtractTexts ==
    ExampleTexts \cup {pre \o <<"O", "r", "d", "e", "r">> \o suf : pre \in ExtractPrefixes, suf \in Suffixes}

\* _extract_order_id reads and writes no field, so one call per run reaches
\* every outcome
ExtractOrderIdCall(text) ==
    /\ dlgCall.op = "none"
    /\ dlgCall' = [op |-> "_extract_order_id", arg |-> text,
                   ok |-> ExtractOrderId(text) # <<>>, found |-> ExtractOrderId(text),
                   response |-> Text("")]
    /\ UNCHANGED <<cacheVars, historyVars, threadVars, apiVars, poolVars, orders, similarities,
                   conversation_history, user_context, turns, classifier>>

InitExtract ==
    /\ NewCache(MaxCap, MaxTTL)
    /\ NewDialogue([d \in DOMAIN faqs |-> 0])
    /\ NewAPIWrapper
    /\ NewConnectionPool(0)

NextExtract == \E text \in ExtractTexts : ExtractOrderIdCall(text)

SpecExtract == InitExtract /\ [][NextExtract]_vars

(***************************************************************************)
(* What the specification says follows the word order: optional            *)
(* whitespace, optionally "id", an optional colon, optional whitespace and *)
(* then a run of letters and digits, which is the order id.                *)
(***************************************************************************)
\* the positions optional whitespace starting at j can end before
AfterSpaces(s, j) == {a \in j..(Len(s) + 1) : \A k \in j..(a - 1) : IsSpace(s[k])}

\* the position after "id" at a when it is there and is taken, a when it is left out
AfterId(s, a, taken) ==
    IF ~taken THEN {a}
    ELSE IF a + 1 <= Len(s) /\ Lower(SubSeq(s, a, a + 1)) = <<"i", "d">> THEN {a + 2}
    ELSE {}

AfterColon(s, b) == {b} \cup (IF b <= Len(s) /\ s[b] = ":" THEN {b + 1} ELSE {})

\* the run of letters and digits that starts at p, if one does
RunsAt(s, p) ==
    {SubSeq(s, p, e) : e \in {e \in p..Len(s) :
                                /\ \A k \in p..e : IsAlnum(s[k])
                                /\ e = Len(s) \/ ~IsAlnum(s[e + 1])}}

\* the order ids that can be read after an "order" that ends before position j
IdsAfterOrder(s, j, taken) ==
    UNION {UNION {UNION {UNION {RunsAt(s, p) : p \in AfterSpaces(s, c)}
                         : c \in AfterColon(s, b)}
                  : b \in AfterId(s, a, taken)}
           : a \in AfterSpaces(s, j)}

\* the positions of the occurrences of "order", in any case, an order id follows
OrderOccurrences(s) ==
    {i \in 1..(Len(s) - 4) :
        /\ Lower(SubSeq(s, i, i + 4)) = <<"o", "r", "d", "e", "r">>
        /\ IdsAfterOrder(s, i + 5, TRUE) \cup IdsAfterOrder(s, i + 5, FALSE) # {}}

(***************************************************************************)
(* C27: order-id extraction returns the run of letters and digits that     *)
(* follows the first occurrence, in any case, of the word order,           *)
(* optionally followed by id, an optional colon and optional whitespace,   *)
(* and none when the text has no such occurrence; "Track my order ORD001"  *)
(* yields ORD001, "order id: abc123" yields abc123, "hello" yields none.   *)
(***************************************************************************)
C27_ExtractsIdAfterOrder ==
    (dlgCall.op = "_extract_order_id")
    => LET text == dlgCall.arg
           occurrences == OrderOccurrences(text)
           first == CHOOSE i \in occurrences : \A k \in occurrences : i <= k
       IN  /\ occurrences = {} => dlgCall.found = <<>>
           /\ occurrences # {}
              => IF IdsAfterOrder(text, first + 5, TRUE) # {}
                 THEN dlgCall.found \in IdsAfterOrder(text, first + 5, TRUE)
                 ELSE dlgCall.found \in IdsAfterOrder(text, first + 5, FALSE)
           /\ text = TxtTrackORD001 => dlgCall.found = <<"O", "R", "D", "0", "0", "1">>
           /\ text = TxtOrderIdAbc123 => dlgCall.found = <<"a", "b", "c", "1", "2", "3">>
           /\ text = TxtHello => dlgCall.found = <<>>

\* C27 witness: from "order id: abc123" the id abc123 was extracted.
C27_Witness ==
    /\ dlgCall.op = "_extract_order_id"
    /\ dlgCall.arg = TxtOrderIdAbc123
    /\ dlgCall.found = <<"a", "b", "c", "1", "2", "3">>

(***************************************************************************)
(* OrderTracker on its own: get_order and cancel_order called with ids in  *)
(* several cases.                                                          *)
(***************************************************************************)
NextTracker ==
    \/ \E order_id \in CaseIds : GetOrder(order_id)
    \/ \E order_id \in CaseIds : CancelOrder(order_id)

SpecTracker == InitDialogue /\ [][NextTracker]_vars

\* two ids that differ at most in the case of their letters
SameButCase(a, b) == Lower(a) = Lower(b)

(***************************************************************************)
(* C28: order ids are case-insensitive: for two ids that differ only in    *)
(* letter case get_order returns the same order, the one whose stored id   *)
(* differs from them at most in case, and cancel_order has the same effect *)
(* and the same result.                                                    *)
(***************************************************************************)
C28_OrderIdsCaseInsensitive ==
    /\ \A a, b \in CaseIds :
          SameButCase(a, b)
          => /\ GetOrderIndex(a) = GetOrderIndex(b)
             /\ CancelOrderOutcome(a) = CancelOrderOutcome(b)
    /\ (dlgCall.op = "get_order")
       => LET stored == {i \in DOMAIN orders : SameButCase(orders[i].order_id, dlgCall.arg)}
          IN  dlgCall.found = IF stored = {} THEN <<>>
                              ELSE <<orders[CHOOSE i \in stored : \A j \in stored : i <= j]>>
    /\ (dlgCall.op = "cancel_order" /\ dlgCall.ok)
       => \E i \in DOMAIN orders :
             /\ SameButCase(orders[i].order_id, dlgCall.arg)
             /\ orders[i].status = "cancelled"

\* C28 witness: cancel_order("ORd2") cancelled the order stored as ORD2, and
\* get_order of ord2 and of ORD2 now both find it cancelled.
C28_Witness ==
    /\ dlgCall.op = "cancel_order"
    /\ dlgCall.arg = IdORd2
    /\ dlgCall.ok
    /\ GetOrderIndex(IdOrd2) = GetOrderIndex(IdORD2)
    /\ GetOrderIndex(IdOrd2) # 0
    /\ orders[GetOrderIndex(IdOrd2)].order_id = IdORD2
    /\ orders[GetOrderIndex(IdOrd2)].status = "cancelled"

(***************************************************************************)
(* The session context: set_context and get_context, with process_input    *)
(* and clear_history calls in between, on a context of two keys.           *)
(***************************************************************************)
SessionKeys == {"user_id", "last_order"}
ContextInputs == {TxtHi, TxtCancel1}

NextContext ==
    \/ \E key \in SessionKeys, value \in ContextValues : SetContext(key, value)
    \/ GetContext
    \/ \E user_input \in ContextInputs : ProcessInput(user_input)
    \/ ClearHistory

SpecContext == InitDialogue /\ [][NextContext]_vars

(***************************************************************************)
(* C29: the session context has no implicit expiry: set_context(k, v) maps *)
(* k to v, leaves every other key, the history and the orders as they      *)
(* were, and no other call (process_input, clear_history, get_context)     *)
(* changes the context, so get_context maps k to v until the next          *)
(* set_context(k, ...).                                                    *)
(***************************************************************************)
C29_ContextKeptUntilSet ==
    [][/\ \A key \in SessionKeys, value \in ContextValues :
             SetContext(key, value)
             => /\ key \in DOMAIN user_context'
                /\ user_context'[key] = value
                /\ \A other \in (DOMAIN user_context) \ {key} :
                      /\ other \in DOMAIN user_context'
                      /\ user_context'[other] = user_context[other]
                /\ DOMAIN user_context' = (DOMAIN user_context) \cup {key}
                /\ conversation_history' = conversation_history
                /\ orders' = orders
       /\ (dlgCall'.op # "set_context") => user_context' = user_context]_vars

\* C29 witness: with user_id set to USER_123 a cancellation was processed and
\* the history then cleared; the context still maps user_id to USER_123.
C29_Witness ==
    /\ dlgCall.op = "clear_history"
    /\ orders[1].status = "cancelled"
    /\ conversation_history = <<>>
    /\ "user_id" \in DOMAIN user_context
    /\ user_context["user_id"] = "USER_123"

(***************************************************************************)
(* cache_result: a function f wrapped by the decorator, called with one    *)
(* positional argument.  The decorator's LRUCache is written by the        *)
(* wrapper only.                                                           *)
(***************************************************************************)
\* the argument tuples f is called with; no keyword arguments
CallArgs == {<<k>> : k \in Keys}
NoKwargs == << >>

\* f"{func_name}:{str(args)}:{str(kwargs)}"
KeyData(func_name, args, kwargs) == <<func_name, ":", args, ":", kwargs>>

\* hashlib.md5(...).hexdigest() over the key data of the calls made: a fixed
\* table, with a digest of its own for each key data
Md5 == [d \in {KeyData("f", args, NoKwargs) : args \in CallArgs} |-> d[3][1]]

\* LRUCache._make_key
MakeKey(func_name, args, kwargs) == Md5[KeyData(func_name, args, kwargs)]

\* the wrapped function: it returns None for the argument 1 and a value for
\* every other argument
FuncResult(args) == IF args = <<1>> THEN None ELSE args[1] - 1

\* wrapper(*args): cache.get, and on a None from it the call of the function
\* and cache.put; an exception raised by get or put goes to the caller
Wrapper(args) ==
    /\ steps < MaxSteps
    /\ steps' = steps + 1
    /\ LET key == MakeKey("f", args, NoKwargs)
           cached == GetOutcome(key)
           result == FuncResult(args)
           put == PutOutcomeIn(cached.cache, cached.timestamps, key, result)
           invoked == cached.exc = "none" /\ cached.ret = None
           after == IF invoked THEN put ELSE cached
       IN  /\ cache' = after.cache
           /\ timestamps' = after.timestamps
           /\ cache_hits' = cached.cache_hits
           /\ cache_misses' = cached.cache_misses
           /\ cacheCall' = [op |-> "wrapper", key |-> key,
                            ret |-> IF after.exc # "none" THEN None
                                    ELSE IF invoked THEN result ELSE cached.ret,
                            exc |-> after.exc, invoked |-> invoked]
           /\ putTime' = PutTimeAfter(after.cache, key, invoked /\ put.exc = "none")
           /\ computed' = IF invoked /\ put.exc = "none"
                          THEN Append(computed, [key |-> key, at |-> now])
                          ELSE computed
           /\ getCalls' = getCalls + 1
    /\ fill' = NoFill
    /\ hit' = NoHit
    /\ UNCHANGED <<max_size, ttl_seconds, now>>
    /\ UNCHANGED outsideCache

NextCached ==
    \/ \E args \in CallArgs : Wrapper(args)
    \/ Tick

SpecCached == Init /\ [][NextCached]_vars

\* an earlier call computed and stored the result for the key, the TTL has
\* not elapsed since and fewer than max_size other keys were stored since
LiveEntry(key) ==
    \E i \in DOMAIN computed :
        /\ computed[i].key = key
        /\ \A j \in (i + 1)..Len(computed) : computed[j].key # key
        /\ (now - computed[i].at) <= ttl_seconds
        /\ Cardinality({computed[j].key : j \in (i + 1)..Len(computed)}) < max_size

(***************************************************************************)
(* C30: a function wrapped by cache_result is computed at most once per    *)
(* argument tuple while its entry is live: equal arguments give the same   *)
(* key, and a call with the arguments of an earlier call, made before the  *)
(* TTL elapses and before max_size other keys are stored, returns the      *)
(* stored result without calling the function, whatever the result is.     *)
(***************************************************************************)
C30_ComputedOncePerArguments ==
    [][\A args \in CallArgs :
          (Wrapper(args) /\ LiveEntry(MakeKey("f", args, NoKwargs)))
          => /\ cacheCall'.key = MakeKey("f", args, NoKwargs)
             /\ cacheCall'.exc = "none"
             /\ ~cacheCall'.invoked
             /\ cacheCall'.ret = FuncResult(args)]_vars

(***************************************************************************)
(* C31: retriever queries go through the result cache: a second identical  *)
(* retriever query made within the TTL is answered as a cache hit, without *)
(* recomputing the ranking.                                                *)
(***************************************************************************)
C31_RepeatedQueryIsCacheHit ==
    (/\ Len(conversation_history) = 4
     /\ conversation_history[1].user \in RetrievedTexts
     /\ conversation_history[3].user = conversation_history[1].user
     /\ (now - conversation_history[1].timestamp) <= ttl_seconds)
    => cache_hits >= 1

(***************************************************************************)
(* C32: put(k, v) for a key k already stored replaces k's value, refreshes *)
(* its timestamp and makes it most-recently-used, and evicts nothing:      *)
(* every other stored key keeps its value, its timestamp and its relative  *)
(* recency order, also when the cache is at capacity.                      *)
(***************************************************************************)
\* (a put step records its key in cacheCall, so only that key is tried;
\* at is the place of the key's entry before the call)
C32_PutExistingReplaces ==
    [][(cacheCall'.op = "put" /\ now' = now /\ cacheCall'.key \in KeysOf(cache))
       => LET key == cacheCall'.key
              at == CHOOSE i \in DOMAIN cache : cache[i].key = key
          IN  \A value \in Vals :
                 Put(key, value)
                 => /\ cacheCall'.exc = "none"
                    /\ Len(cache') = Len(cache)
                    /\ cache'[Len(cache')] = [key |-> key, value |-> value]
                    /\ \A i \in 1..(at - 1) : cache'[i] = cache[i]
                    /\ \A i \in (at + 1)..Len(cache) : cache'[i - 1] = cache[i]
                    /\ key \in DOMAIN timestamps'
                    /\ timestamps'[key] = now
                    /\ (DOMAIN timestamps') \ {key} = (DOMAIN timestamps) \ {key}
                    /\ \A j \in (DOMAIN timestamps) \ {key} :
                          timestamps'[j] = timestamps[j]]_vars

\* A put of a stored key into a full cache of two entries has returned, one
\* tick after both keys were first stored: the other key is still the
\* least recently used and keeps its timestamp.
C32_Witness ==
    /\ cacheCall.op = "put"
    /\ cacheCall.exc = "none"
    /\ max_size = 2
    /\ Len(cache) = 2
    /\ steps = 4
    /\ now = 1
    /\ cache_hits + cache_misses = 0
    /\ ~fill.ok
    /\ DOMAIN timestamps = KeysOf(cache)
    /\ timestamps[cache[1].key] = 0
    /\ timestamps[cache[2].key] = 1

(***************************************************************************)
(* C33: every get call records exactly one outcome: it increments          *)
(* cache_hits by one when it returns a stored value and cache_misses by    *)
(* one when it returns absent (or raises), so cache_hits + cache_misses    *)
(* always equals the number of get calls; put and clear, the steps that    *)
(* leave the number of get calls as it was, change neither counter.        *)
(***************************************************************************)
C33_GetCountsOneOutcome ==
    /\ [](cache_hits + cache_misses = getCalls)
    /\ [][/\ (cacheCall'.op = "get" /\ \E key \in {cacheCall'.key} : Get(key))
             => IF cacheCall'.exc = "none" /\ cacheCall'.ret \in Vals
                THEN cache_hits' = cache_hits + 1 /\ cache_misses' = cache_misses
                ELSE cache_hits' = cache_hits /\ cache_misses' = cache_misses + 1
          /\ (getCalls' = getCalls)
             => cache_hits' = cache_hits /\ cache_misses' = cache_misses]_vars

\* A get has just missed after an earlier get hit, with a put before them
\* and time passing in between.
C33_Witness ==
    /\ cacheCall.op = "get"
    /\ cacheCall.ret = None
    /\ getCalls = 2
    /\ cache_hits = 1
    /\ cache_misses = 1
    /\ now >= 1
    /\ cache = <<>>

(***************************************************************************)
(* C34: TTL expiry is lazy: the passage of time alone never changes the    *)
(* stored entries; an entry whose age exceeds the TTL stays stored and     *)
(* counts toward capacity until a get of that key, an eviction by put, or  *)
(* clear removes it.                                                       *)
(***************************************************************************)
\* the age of key's entry exceeds the TTL
Aged(key) == key \in DOMAIN timestamps /\ (now - timestamps[key]) > ttl_seconds

C34_ExpiryIsLazy ==
    [][/\ (now' # now) => (cache' = cache /\ timestamps' = timestamps)
       /\ \A k \in KeysOf(cache) \ KeysOf(cache') :
             \/ Get(k)
             \/ Clear
             \/ /\ Len(cache) >= max_size
                /\ \E key \in Keys \ {k}, value \in Vals : Put(key, value)
       /\ \A key \in {cacheCall'.key} \ KeysOf(cache), value \in Vals :
             (/\ cacheCall'.op = "put"
              /\ Len(cache) >= max_size
              /\ \E k \in KeysOf(cache) : Aged(k)
              /\ Put(key, value))
             => Len(cache') < Len(cache) + 1]_vars

\* Both entries of a full cache have aged beyond the TTL and are still
\* stored after the time passed and a get of a third key missed.
C34_Witness ==
    /\ max_size = 2
    /\ Len(cache) = 2
    /\ \A k \in KeysOf(cache) : Aged(k)
    /\ cacheCall.op = "get"
    /\ cacheCall.key \notin KeysOf(cache)
    /\ cache_misses = 1
    /\ steps = 4

(***************************************************************************)
(* C35: ChatbotAPIWrapper.reset_session(session_id) resets the             *)
(* conversation: after it returns, the chatbot's conversation history is   *)
(* empty, the session id is no longer registered, and the returned status  *)
(* has success true.                                                       *)
(***************************************************************************)
C35_ResetSessionResets ==
    (apiCall.op = "reset_session")
    => /\ apiCall.success
       /\ conversation_history = <<>>
       /\ apiCall.session_id \notin DOMAIN sessions

(***************************************************************************)
(* C36: after any sequence of get, put and clear calls, the key set of the *)
(* cache's value map equals the key set of its timestamp map: every stored *)
(* entry has an insertion timestamp and no timestamp exists for a key that *)
(* is not stored.                                                          *)
(***************************************************************************)
C36_SameKeysInBothMaps == KeysOf(cache) = DOMAIN timestamps

(***************************************************************************)
(* C37: when several callers concurrently send cancellation requests for   *)
(* the same pending or processing order to one DialogueSystem, under every *)
(* interleaving at most one of them receives the cancelled-successfully    *)
(* confirmation, namely the one whose cancel_order call changed the        *)
(* status.                                                                 *)
(***************************************************************************)
\* the replies in the history that confirm the cancellation of order_id
ConfirmationsOf(order_id) ==
    {i \in DOMAIN conversation_history :
        /\ conversation_history[i].type = "assistant"
        /\ conversation_history[i].assistant = CancelledReply(order_id)}

C37_OneConfirmationPerOrder ==
    \A order_id \in {IdORD1, IdORD2} : Cardinality(ConfirmationsOf(order_id)) <= 1

(***************************************************************************)
(* One thread calling get_connection and release_connection on a           *)
(* ConnectionPool, with connections the pool handed out and connections it *)
(* never did.                                                              *)
(***************************************************************************)
InitPool ==
    /\ NewCache(MaxCap, MaxTTL)
    /\ NewDialogue([d \in DOMAIN faqs |-> 0])
    /\ NewAPIWrapper
    /\ \E pool_size \in 0..MaxPoolSize : NewConnectionPool(pool_size)

NextPool ==
    \/ \E timeout \in Timeouts : GetConnection(timeout)
    \/ \E connection \in Connections : ReleaseConnection(connection)

SpecPool == InitPool /\ [][NextPool]_vars

(***************************************************************************)
(* C38: after any single-threaded sequence of get_connection and           *)
(* release_connection calls on a ConnectionPool, including releases of     *)
(* connections that were never obtained from it, active_connections >= 0,  *)
(* the number of available connections is at most pool_size, and           *)
(* available + active never exceeds max_connections.                       *)
(***************************************************************************)
C38_PoolCountsBounded ==
    /\ pool.active_connections >= 0
    /\ Len(pool.available_connections) <= pool.pool_size
    /\ Len(pool.available_connections) + pool.active_connections <= pool.max_connections

\* A connection was released to a pool that had none active and whose
\* available list was already full: neither count moved.
C38_Witness ==
    /\ poolCall.op = "release_connection"
    /\ pool.pool_size = 2
    /\ pool.active_connections = 0
    /\ Len(pool.available_connections) = 2
    /\ poolCall.connection # pool.available_connections[2]
    /\ pool.available_connections[1] = pool.available_connections[2]

====
